---------------------------- MODULE Spec2Model ----------------------------
(***************************************************************************)
(* State-machine model of the sonifier extension's HTTP server             *)
(* (src/sonifierextension/extension.go): the ingestion handler             *)
(* handleTelemetry, the pull handler handleGetTelemetryData, the           *)
(* subscription handler handleWebSocket and broadcastToWebSockets.         *)
(*                                                                         *)
(* Every inbound request runs in its own goroutine (net/http): a request   *)
(* slot is one such goroutine, taken again by a later request once it has  *)
(* returned, and a connection slot is one websocket connection (a handle   *)
(* is never reused).  The two sync.Mutex fields are modelled by their      *)
(* holder.                                                                 *)
(***************************************************************************)
EXTENDS Integers, Sequences, FiniteSets, TLC

\* ------------------------------------------------------------------ bounds
\* Requests served at the same time, and websocket connections ever made.
MaxRequests == 2
MaxConns == 2
\* Messages a page receives in one session, and reconnections of its
\* WebSocket.
MaxEnvelopes == 3
MaxReconnects == 1

Requests == 1..MaxRequests
Conns == 1..MaxConns

\* ------------------------------------------------------- byte payloads
(***************************************************************************)
(* A byte string is abstracted by what the handler can observe of it:      *)
(*   enc   "json"    valid JSON text whose top level is an object          *)
(*         "jsonval" valid JSON text that is not an object                 *)
(*         "jsonstr" a JSON string literal that quotes raw bytes           *)
(*         "bin"     bytes that are not valid JSON                         *)
(*   keys  the top-level keys of a JSON object                             *)
(*   dec   the OTLP protobuf schemas that decode the bytes without error   *)
(*   n     the identity of the content (0: no content)                     *)
(***************************************************************************)
Schemas == {"traces", "metrics", "logs"}
Kinds == Schemas \cup {"unknown"}

Marker(k) ==
    CASE k = "traces" -> "resourceSpans"
      [] k = "metrics" -> "resourceMetrics"
      [] k = "logs" -> "resourceLogs"

\* The zero-length byte string: not JSON, and an empty protobuf message of
\* every schema.
EmptyBytes == [enc |-> "bin", keys |-> {}, dec |-> Schemas, n |-> 0]

JsonObj(ks, id) == [enc |-> "json", keys |-> ks, dec |-> {}, n |-> id]
Bin(ds, id) == [enc |-> "bin", keys |-> {}, dec |-> ds, n |-> id]

\* The request bodies the model posts.
Bodies ==
    { JsonObj({"resourceSpans"}, 1),
      JsonObj({"resourceMetrics", "resourceLogs"}, 2),
      Bin({"logs"}, 3),
      Bin({}, 4),
      EmptyBytes }

IsEmpty(b) == b = EmptyBytes

\* json.Valid
JsonValid(b) == b.enc \in {"json", "jsonval", "jsonstr"}

\* json.Unmarshal(body, &map[string]interface{}) == nil
UnmarshalObject(b) == b.enc = "json"

\* XxxReq.UnmarshalProto(body) == nil
UnmarshalProto(schema, b) == schema \in b.dec

\* XxxReq.MarshalJSON(): the decoded request rendered as OTLP JSON; a request
\* without content renders as the empty object.
MarshalJSON(schema, b) ==
    [enc |-> "json",
     keys |-> IF b.n = 0 THEN {} ELSE {Marker(schema)},
     dec |-> {},
     n |-> b.n]

\* json.Marshal(string(data)): the bytes quoted as one JSON string.
MarshalString(b) == [enc |-> "jsonstr", keys |-> {}, dec |-> b.dec, n |-> b.n]

\* Mutant: among the JSON markers resourceLogs is looked for first.
ClassifyJsonLogsFirst(b) ==
    IF JsonValid(b)
    THEN IF UnmarshalObject(b)
         THEN IF "resourceLogs" \in b.keys
              THEN [dataType |-> "logs", jsonData |-> b]
              ELSE IF "resourceMetrics" \in b.keys
              THEN [dataType |-> "metrics", jsonData |-> b]
              ELSE IF "resourceSpans" \in b.keys
              THEN [dataType |-> "traces", jsonData |-> b]
              ELSE [dataType |-> "unknown", jsonData |-> b]
         ELSE [dataType |-> "unknown", jsonData |-> b]
    ELSE IF UnmarshalProto("traces", b)
         THEN [dataType |-> "traces", jsonData |-> MarshalJSON("traces", b)]
         ELSE IF UnmarshalProto("metrics", b)
         THEN [dataType |-> "metrics", jsonData |-> MarshalJSON("metrics", b)]
         ELSE IF UnmarshalProto("logs", b)
         THEN [dataType |-> "logs", jsonData |-> MarshalJSON("logs", b)]
         ELSE [dataType |-> "unknown", jsonData |-> b]

\* Mutant: the binary schemas are tried in the order logs, metrics, traces.
ClassifyBinLogsFirst(b) ==
    IF JsonValid(b)
    THEN IF UnmarshalObject(b)
         THEN IF "resourceSpans" \in b.keys
              THEN [dataType |-> "traces", jsonData |-> b]
              ELSE IF "resourceMetrics" \in b.keys
              THEN [dataType |-> "metrics", jsonData |-> b]
              ELSE IF "resourceLogs" \in b.keys
              THEN [dataType |-> "logs", jsonData |-> b]
              ELSE [dataType |-> "unknown", jsonData |-> b]
         ELSE [dataType |-> "unknown", jsonData |-> b]
    ELSE IF UnmarshalProto("logs", b)
         THEN [dataType |-> "logs", jsonData |-> MarshalJSON("logs", b)]
         ELSE IF UnmarshalProto("metrics", b)
         THEN [dataType |-> "metrics", jsonData |-> MarshalJSON("metrics", b)]
         ELSE IF UnmarshalProto("traces", b)
         THEN [dataType |-> "traces", jsonData |-> MarshalJSON("traces", b)]
         ELSE [dataType |-> "unknown", jsonData |-> b]

\* handleTelemetry, lines 143-188: dataType and jsonData from the body.
Classify(b) ==
    IF JsonValid(b)
    THEN IF UnmarshalObject(b)
         THEN IF "resourceSpans" \in b.keys
              THEN [dataType |-> "traces", jsonData |-> b]
              ELSE IF "resourceMetrics" \in b.keys
              THEN [dataType |-> "metrics", jsonData |-> b]
              ELSE IF "resourceLogs" \in b.keys
              THEN [dataType |-> "logs", jsonData |-> b]
              ELSE [dataType |-> "unknown", jsonData |-> b]
         ELSE [dataType |-> "unknown", jsonData |-> b]
    ELSE IF UnmarshalProto("traces", b)
         THEN [dataType |-> "traces", jsonData |-> MarshalJSON("traces", b)]
         ELSE IF UnmarshalProto("metrics", b)
         THEN [dataType |-> "metrics", jsonData |-> MarshalJSON("metrics", b)]
         ELSE IF UnmarshalProto("logs", b)
         THEN [dataType |-> "logs", jsonData |-> MarshalJSON("logs", b)]
         ELSE [dataType |-> "unknown", jsonData |-> b]

\* lines 192-196: what is written into the buffer after Reset.
StoredBytes(jsonData, b) == IF ~IsEmpty(jsonData) THEN jsonData ELSE b

\* lines 200-207 and 239-249: the payload of the response object.
EnvelopePayload(data) == IF JsonValid(data) THEN data ELSE MarshalString(data)

\* lines 209-217 and 251-257: the {type, payload} object.
Envelope(kind, data) == [type |-> kind, payload |-> EnvelopePayload(data)]

\* ------------------------------------------------------------------ state
None == 0

VARIABLES
    telemetryData,   \* s.telemetryData: the buffer's bytes
    telemetryType,   \* s.telemetryType ("" before the first ingestion)
    mu,              \* s.mu: None or the request that holds it
    wsConnections,   \* s.wsConnections: the keys of the map
    wsConnMutex,     \* s.wsConnMutex: None or its holder
    pc,              \* per request: position in its handler ("done" and
                     \* "p_done": an ingestion, a pull has returned)
    body,            \* handleTelemetry: body
    dataType,        \* handleTelemetry: dataType
    jsonData,        \* handleTelemetry: jsonData
    message,         \* handleTelemetry: messageBytes; pull: the response body
    data,            \* handleGetTelemetryData: data
    status,          \* per request: HTTP status written (0: none yet)
    method,          \* per request: r.Method on an ingestion endpoint
    attempts,        \* per request: WriteMessage calls made, per connection
    cur,             \* per request: conn of the WriteMessage in progress
    sent,            \* per request: connections whose WriteMessage returned nil
    startSet,        \* history: the map's keys when the broadcast locked
    cpc,             \* per connection: position in handleWebSocket
    net,             \* per connection: the peer ("ok", "stalled", "broken")
    closed,          \* per connection: conn.Close() has been called
    lastPut          \* history: the most recently completed store

vars ==
    << telemetryData, telemetryType, mu, wsConnections, wsConnMutex, pc,
       body, dataType, jsonData, message, data, status, method, attempts,
       cur, sent, startSet, cpc, net, closed, lastPut >>

\* The page (web/script.js): the state of one TelemetryVisualizer.
VARIABLES
    traceQueue,           \* this.traceQueue
    currentPlaybackRate,  \* this.currentPlaybackRate (ms)
    timers,               \* pending setTimeout(playNextTrace, ...) wakes
    timerDelay,           \* the delay the latest of them was scheduled with
    presented,            \* history: the items handed to createRaindrop
    enqueued,             \* history: how many items were ever pushed
    envelopes,            \* history: how many messages were received
    wsLive,               \* a WebSocket exists (else a reconnect is pending)
    reconnects,           \* history: connectWebSocket calls after the first
    currentActivity,      \* this.currentActivity, in units of 1/ActivityUnit
    targetMetricLevel,    \* this.targetMetricLevel, in tenths
    currentSkyId,         \* this.currentSkyId
    analyzed              \* what analyzeTelemetry returned for the latest
                          \* message that was analyzed

indicatorVars ==
    << currentActivity, targetMetricLevel, currentSkyId, analyzed >>

playVars ==
    << traceQueue, currentPlaybackRate, timers, timerDelay, presented,
       enqueued, envelopes, wsLive, reconnects, currentActivity,
       targetMetricLevel, currentSkyId, analyzed >>

\* script.js line 15
basePlaybackRate == 20

\* ------------------------------------------------- telemetry-analyzer.js
(***************************************************************************)
(* A payload is abstracted by the top-level fields it has and, flattened   *)
(* in the order of the nested forEach loops, its spans (traceId present,   *)
(* status.code is 2), its metric data points and its log records.  A gauge *)
(* point carries asDouble in hundredths, a sum point asInt in hundreds.    *)
(* Percentages are whole numbers; a rate is a fraction [num, den].         *)
(***************************************************************************)
Payload(fs, ss, ps, ls) == [fields |-> fs, spans |-> ss, points |-> ps, logs |-> ls]

Span(hasId, isErr) == [traceId |-> hasId, error |-> isErr]
Point(nm, kd, v) == [name |-> nm, kind |-> kd, value |-> v]
LogRecord(text, number) == [severityText |-> text, severityNumber |-> number]

Max2(a, b) == IF a >= b THEN a ELSE b
Min2(a, b) == IF a <= b THEN a ELSE b

\* The maximum of 0 and the values f[i], i in DOMAIN f (Math.max folded over
\* the points, from 0).
RECURSIVE MaxFrom(_, _)
MaxFrom(f, n) == IF n = 0 THEN 0 ELSE Max2(MaxFrom(f, n - 1), f[n])

\* The rate 0.
ZeroRate == [num |-> 0, den |-> 1]

\* Mutant: the division is made without the test of the total.
RatioUnguarded(errors, total) == [num |-> errors, den |-> total]

\* errors / total, or 0 when total is 0 (lines 63 and 148).
Ratio(errors, total) ==
    IF total > 0 THEN [num |-> errors, den |-> total] ELSE ZeroRate

HasTraceId(s) == s.traceId

\* analyzeTraces, lines 17-76 (durations are not modelled).
AnalyzeTraces(p) ==
    IF "resourceSpans" \notin p.fields
    THEN [count |-> 0, errorRate |-> ZeroRate, traceIds |-> << >>]
    ELSE [count |-> Len(p.spans),
          errorRate |-> Ratio(Cardinality({i \in DOMAIN p.spans : p.spans[i].error}),
                              Len(p.spans)),
          traceIds |-> SelectSeq(p.spans, HasTraceId)]

\* The contribution of one data point to cpu, memory or disk (lines 92-117).
PointValue(pt, nm) ==
    IF pt.name # nm THEN 0
    ELSE IF nm = "system.disk.io"
         THEN IF pt.kind = "sum" THEN Min2(100, pt.value) ELSE 0
         ELSE IF pt.kind = "gauge" THEN pt.value ELSE 0

MetricMax(p, nm) ==
    MaxFrom([i \in DOMAIN p.points |-> PointValue(p.points[i], nm)], Len(p.points))

\* analyzeMetrics, lines 78-125.
AnalyzeMetrics(p) ==
    IF "resourceMetrics" \notin p.fields
    THEN [cpu |-> 0, memory |-> 0, disk |-> 0, critical |-> FALSE]
    ELSE LET cpu == MetricMax(p, "system.cpu.utilization")
             memory == MetricMax(p, "system.memory.utilization")
             disk == MetricMax(p, "system.disk.io")
         IN [cpu |-> cpu, memory |-> memory, disk |-> disk,
             critical |-> (cpu > 80 \/ memory > 80 \/ disk > 80)]

IsErrorLog(l) ==
    \/ l.severityText \in {"ERROR", "FATAL"}
    \/ l.severityNumber >= 17

\* analyzeLogs, lines 127-151.
AnalyzeLogs(p) ==
    IF "resourceLogs" \notin p.fields
    THEN [errorRate |-> ZeroRate, totalCount |-> 0]
    ELSE [errorRate |-> Ratio(Cardinality({i \in DOMAIN p.logs : IsErrorLog(p.logs[i])}),
                              Len(p.logs)),
          totalCount |-> Len(p.logs)]

\* analyzeTelemetry, lines 9-15.
AnalyzeTelemetry(p) ==
    [traces |-> AnalyzeTraces(p), metrics |-> AnalyzeMetrics(p), logs |-> AnalyzeLogs(p)]

NoPayload == Payload({}, << >>, << >>, << >>)

snapshotVars == << telemetryData, telemetryType, lastPut >>
hubVars == << wsConnections, wsConnMutex, attempts, cur, sent, startSet >>
connVars == << cpc, net, closed >>
localVars == << body, dataType, jsonData, message, data >>

NoMessage == [type |-> "", payload |-> EmptyBytes]
NoAttempts == [c \in Conns |-> 0]

\* script.js lines 5-27: the constructor.  startDataFetching opens the
\* WebSocket; startConstantRain runs playNextTrace once, on the empty queue,
\* which schedules the first wake with the base rate.
PlayInit ==
    /\ traceQueue = << >>
    /\ currentPlaybackRate = basePlaybackRate
    /\ timers = 1
    /\ timerDelay = basePlaybackRate
    /\ presented = << >>
    /\ enqueued = 0
    /\ envelopes = 0
    /\ wsLive = TRUE
    /\ reconnects = 0
    /\ currentActivity = 0
    /\ targetMetricLevel = 0
    /\ currentSkyId = "sky-low"
    /\ analyzed = AnalyzeTelemetry(NoPayload)

\* newSonifierExtension, lines 37-49, and the page as constructed.
Init ==
    /\ telemetryData = EmptyBytes
    /\ telemetryType = ""
    /\ mu = None
    /\ wsConnections = {}
    /\ wsConnMutex = None
    /\ pc = [r \in Requests |-> "idle"]
    /\ body = [r \in Requests |-> EmptyBytes]
    /\ dataType = [r \in Requests |-> ""]
    /\ jsonData = [r \in Requests |-> EmptyBytes]
    /\ message = [r \in Requests |-> NoMessage]
    /\ data = [r \in Requests |-> EmptyBytes]
    /\ status = [r \in Requests |-> 0]
    /\ method = [r \in Requests |-> ""]
    /\ attempts = [r \in Requests |-> NoAttempts]
    /\ cur = [r \in Requests |-> None]
    /\ sent = [r \in Requests |-> {}]
    /\ startSet = [r \in Requests |-> {}]
    /\ cpc = [c \in Conns |-> "idle"]
    /\ net = [c \in Conns |-> "ok"]
    /\ closed = [c \in Conns |-> FALSE]
    /\ lastPut = [kind |-> "", payload |-> EmptyBytes]
    /\ PlayInit

\* A request slot serves a new request once its previous one has returned.
Arrives(r) == pc[r] \in {"idle", "done", "p_done"}

\* Mutant: s.mu is never waited for.
MuNeverHeld == TRUE

\* sync.Mutex.Lock returns only when the mutex is free.
MuFree == mu = None
WsFree == wsConnMutex = None

ReqHolder(r) == r
ConnHolder(c) == MaxRequests + c

\* ------------------------------------------------- handleTelemetry
Methods == {"POST", "GET"}

\* Mutant: a refused request clears the buffer.
MethodNotAllowedResets(r) ==
    /\ Arrives(r)
    /\ \E m \in Methods \ {"POST"} :
          /\ method' = [method EXCEPT ![r] = m]
          /\ status' = [status EXCEPT ![r] = 405]
    /\ pc' = [pc EXCEPT ![r] = "done"]
    /\ telemetryData' = EmptyBytes
    /\ UNCHANGED << telemetryType, lastPut, mu, hubVars, connVars, localVars >>
    /\ UNCHANGED playVars

\* lines 131-134: a request whose method is not POST is refused.
MethodNotAllowed(r) ==
    /\ Arrives(r)
    /\ \E m \in Methods \ {"POST"} :
          /\ method' = [method EXCEPT ![r] = m]
          /\ status' = [status EXCEPT ![r] = 405]
    /\ pc' = [pc EXCEPT ![r] = "done"]
    /\ UNCHANGED << snapshotVars, mu, hubVars, connVars, localVars >>
    /\ UNCHANGED playVars

\* Mutant: the buffer is reset before the body is read.
ReadBodyFailResets(r) ==
    /\ Arrives(r)
    /\ telemetryData' = EmptyBytes
    /\ status' = [status EXCEPT ![r] = 500]
    /\ pc' = [pc EXCEPT ![r] = "done"]
    /\ UNCHANGED << telemetryType, lastPut, mu, hubVars, connVars, localVars >>
    /\ method' = [method EXCEPT ![r] = "POST"]
    /\ UNCHANGED playVars

\* lines 136-140: io.ReadAll fails on a POST.
ReadBodyFail(r) ==
    /\ Arrives(r)
    /\ status' = [status EXCEPT ![r] = 500]
    /\ pc' = [pc EXCEPT ![r] = "done"]
    /\ UNCHANGED << snapshotVars, mu, hubVars, connVars, localVars >>
    /\ method' = [method EXCEPT ![r] = "POST"]
    /\ UNCHANGED playVars

\* Mutant: a body of unknown kind takes the kind of the current snapshot.
ReadAndClassifySticky(r, b) ==
    /\ Arrives(r)
    /\ body' = [body EXCEPT ![r] = b]
    /\ dataType' = [dataType EXCEPT ![r] =
                       IF Classify(b).dataType = "unknown" /\ telemetryType # ""
                       THEN telemetryType ELSE Classify(b).dataType]
    /\ jsonData' = [jsonData EXCEPT ![r] = Classify(b).jsonData]
    /\ pc' = [pc EXCEPT ![r] = "lock"]
    /\ status' = [status EXCEPT ![r] = 0]
    /\ UNCHANGED << snapshotVars, mu, hubVars, connVars, message, data >>

\* lines 136-188: the body b of a POST is read and classified.
ReadAndClassify(r, b) ==
    /\ Arrives(r)
    /\ body' = [body EXCEPT ![r] = b]
    /\ dataType' = [dataType EXCEPT ![r] = Classify(b).dataType]
    /\ jsonData' = [jsonData EXCEPT ![r] = Classify(b).jsonData]
    /\ pc' = [pc EXCEPT ![r] = "lock"]
    /\ status' = [status EXCEPT ![r] = 0]
    /\ UNCHANGED << snapshotVars, mu, hubVars, connVars, message, data >>

\* handleTelemetry on a POST whose body is read without error.
HandleTelemetry(r) ==
    /\ \E b \in Bodies : ReadAndClassify(r, b)
    /\ method' = [method EXCEPT ![r] = "POST"]
    /\ UNCHANGED playVars

\* Mutant: the ingestion does not wait for the snapshot lock.
TelemetryLockNoWait(r) ==
    /\ pc[r] = "lock"
    /\ mu' = ReqHolder(r)
    /\ pc' = [pc EXCEPT ![r] = "reset"]
    /\ UNCHANGED << snapshotVars, hubVars, connVars, localVars, status >>
    /\ UNCHANGED << method, playVars >>

\* line 190: s.mu.Lock()
TelemetryLock(r) ==
    /\ pc[r] = "lock"
    /\ MuFree
    /\ mu' = ReqHolder(r)
    /\ pc' = [pc EXCEPT ![r] = "reset"]
    /\ UNCHANGED << snapshotVars, hubVars, connVars, localVars, status >>
    /\ UNCHANGED << method, playVars >>

\* line 191: s.telemetryData.Reset()
TelemetryReset(r) ==
    /\ pc[r] = "reset"
    /\ telemetryData' = EmptyBytes
    /\ pc' = [pc EXCEPT ![r] = "write"]
    /\ UNCHANGED << telemetryType, lastPut, mu, hubVars, connVars, localVars,
                    status >>
    /\ UNCHANGED << method, playVars >>

\* lines 192-196: s.telemetryData.Write(...)
TelemetryWrite(r) ==
    /\ pc[r] = "write"
    /\ telemetryData' = StoredBytes(jsonData[r], body[r])
    /\ pc' = [pc EXCEPT ![r] = "settype"]
    /\ UNCHANGED << telemetryType, lastPut, mu, hubVars, connVars, localVars,
                    status >>
    /\ UNCHANGED << method, playVars >>

\* What an ingestion puts into the snapshot (lines 192-197): its kind and
\* the bytes it writes.
PutOf(r) == [kind |-> dataType[r], payload |-> StoredBytes(jsonData[r], body[r])]

\* line 197: s.telemetryType = dataType; the store of this ingestion is
\* complete.
TelemetrySetType(r) ==
    /\ pc[r] = "settype"
    /\ telemetryType' = dataType[r]
    /\ lastPut' = PutOf(r)
    /\ pc' = [pc EXCEPT ![r] = "build"]
    /\ UNCHANGED << telemetryData, mu, hubVars, connVars, localVars,
                    status >>
    /\ UNCHANGED << method, playVars >>

\* Mutant: the snapshot lock is released once the envelope is built, before
\* the broadcast.
TelemetryBuildUnlocked(r) ==
    /\ pc[r] = "build"
    /\ message' = [message EXCEPT ![r] = Envelope(dataType[r], telemetryData)]
    /\ mu' = None
    /\ pc' = [pc EXCEPT ![r] = "bc_lock"]
    /\ UNCHANGED << snapshotVars, hubVars, connVars, body, dataType,
                    jsonData, data, status >>
    /\ UNCHANGED << method, playVars >>

\* lines 199-217: the envelope from the buffer's bytes and dataType.
TelemetryBuild(r) ==
    /\ pc[r] = "build"
    /\ message' = [message EXCEPT ![r] = Envelope(dataType[r], telemetryData)]
    /\ pc' = [pc EXCEPT ![r] = "bc_lock"]
    /\ UNCHANGED << snapshotVars, mu, hubVars, connVars, body, dataType,
                    jsonData, data, status >>
    /\ UNCHANGED << method, playVars >>

\* ------------------------------------------------- broadcastToWebSockets
\* The keys the range loop of a broadcast has produced so far.
Produced(r) == {c \in Conns : attempts[r][c] > 0}

\* The keys the range loop has still to produce: those in the map now.
Remaining(r) == wsConnections \ Produced(r)

\* Mutant: the broadcast is made outside the locks: the snapshot lock is
\* released before it and the set's lock is not taken.
BroadcastUnlocked(r) ==
    /\ pc[r] = "bc_lock"
    /\ mu' = None
    /\ startSet' = [startSet EXCEPT ![r] = wsConnections]
    /\ pc' = [pc EXCEPT ![r] = "bc_iter"]
    /\ UNCHANGED << snapshotVars, wsConnections, wsConnMutex, attempts, cur,
                    sent, connVars, localVars, status >>
    /\ UNCHANGED << method, playVars >>

\* line 304: s.wsConnMutex.Lock()
BroadcastLock(r) ==
    /\ pc[r] = "bc_lock"
    /\ WsFree
    /\ wsConnMutex' = ReqHolder(r)
    /\ startSet' = [startSet EXCEPT ![r] = wsConnections]
    /\ pc' = [pc EXCEPT ![r] = "bc_iter"]
    /\ UNCHANGED << snapshotVars, mu, wsConnections, attempts, cur, sent,
                    connVars, localVars, status >>
    /\ UNCHANGED << method, playVars >>

\* Mutant: the loop ranges over every connection ever upgraded, in the map
\* or not.
BroadcastNextStale(r) ==
    /\ pc[r] = "bc_iter"
    /\ \E c \in {d \in Conns : cpc[d] \in {"reading", "unreg_del", "done"}} \ Produced(r) :
          /\ cur' = [cur EXCEPT ![r] = c]
          /\ attempts' = [attempts EXCEPT ![r][c] = @ + 1]
    /\ pc' = [pc EXCEPT ![r] = "bc_write"]
    /\ UNCHANGED << snapshotVars, mu, wsConnections, wsConnMutex, sent,
                    startSet, connVars, localVars, status >>
    /\ UNCHANGED << method, playVars >>

\* lines 307-308: the range loop yields a key and conn.WriteMessage is called.
BroadcastNext(r) ==
    /\ pc[r] = "bc_iter"
    /\ \E c \in Remaining(r) :
          /\ cur' = [cur EXCEPT ![r] = c]
          /\ attempts' = [attempts EXCEPT ![r][c] = @ + 1]
    /\ pc' = [pc EXCEPT ![r] = "bc_write"]
    /\ UNCHANGED << snapshotVars, mu, wsConnections, wsConnMutex, sent,
                    startSet, connVars, localVars, status >>
    /\ UNCHANGED << method, playVars >>

\* line 308: conn.WriteMessage returns nil.
BroadcastWriteOk(r) ==
    /\ pc[r] = "bc_write"
    /\ net[cur[r]] = "ok"
    /\ ~closed[cur[r]]
    /\ sent' = [sent EXCEPT ![r] = @ \cup {cur[r]}]
    /\ cur' = [cur EXCEPT ![r] = None]
    /\ pc' = [pc EXCEPT ![r] = "bc_iter"]
    /\ UNCHANGED << snapshotVars, mu, wsConnections, wsConnMutex, attempts,
                    startSet, connVars, localVars, status >>
    /\ UNCHANGED << method, playVars >>

\* Mutant: the loop is left at the first write error.
BroadcastWriteFailReturn(r) ==
    /\ pc[r] = "bc_write"
    /\ (net[cur[r]] = "broken" \/ closed[cur[r]])
    /\ closed' = [closed EXCEPT ![cur[r]] = TRUE]
    /\ net' = [net EXCEPT ![cur[r]] = "broken"]
    /\ wsConnections' = wsConnections \ {cur[r]}
    /\ cur' = [cur EXCEPT ![r] = None]
    /\ wsConnMutex' = None
    /\ pc' = [pc EXCEPT ![r] = "unlock"]
    /\ UNCHANGED << snapshotVars, mu, attempts, sent, startSet, cpc, localVars,
                    status >>
    /\ UNCHANGED << method, playVars >>

\* Mutant: the failed connection is closed but stays in the map.
BroadcastWriteFailKeep(r) ==
    /\ pc[r] = "bc_write"
    /\ (net[cur[r]] = "broken" \/ closed[cur[r]])
    /\ closed' = [closed EXCEPT ![cur[r]] = TRUE]
    /\ net' = [net EXCEPT ![cur[r]] = "broken"]
    /\ cur' = [cur EXCEPT ![r] = None]
    /\ pc' = [pc EXCEPT ![r] = "bc_iter"]
    /\ UNCHANGED << snapshotVars, mu, wsConnections, wsConnMutex, attempts,
                    sent, startSet, cpc, localVars, status >>
    /\ UNCHANGED << method, playVars >>

\* lines 308-313: conn.WriteMessage returns an error; conn.Close() and delete.
BroadcastWriteFail(r) ==
    /\ pc[r] = "bc_write"
    /\ (net[cur[r]] = "broken" \/ closed[cur[r]])
    /\ closed' = [closed EXCEPT ![cur[r]] = TRUE]
    /\ net' = [net EXCEPT ![cur[r]] = "broken"]
    /\ wsConnections' = wsConnections \ {cur[r]}
    /\ cur' = [cur EXCEPT ![r] = None]
    /\ pc' = [pc EXCEPT ![r] = "bc_iter"]
    /\ UNCHANGED << snapshotVars, mu, wsConnMutex, attempts, sent, startSet,
                    cpc, localVars, status >>
    /\ UNCHANGED << method, playVars >>

\* line 305 (deferred): the loop is over; s.wsConnMutex.Unlock()
BroadcastUnlock(r) ==
    /\ pc[r] = "bc_iter"
    /\ Remaining(r) = {}
    /\ wsConnMutex' = None
    /\ pc' = [pc EXCEPT ![r] = "unlock"]
    /\ UNCHANGED << snapshotVars, mu, wsConnections, attempts, cur, sent,
                    startSet, connVars, localVars, status >>
    /\ UNCHANGED << method, playVars >>

\* Mutant: a broadcast that met a write error is answered with a 500.
TelemetryUnlockPropagate(r) ==
    /\ pc[r] = "unlock"
    /\ mu' = None
    /\ status' = [status EXCEPT ![r] = IF sent[r] = Produced(r) THEN 200 ELSE 500]
    /\ pc' = [pc EXCEPT ![r] = "done"]
    /\ body' = [body EXCEPT ![r] = EmptyBytes]
    /\ dataType' = [dataType EXCEPT ![r] = ""]
    /\ jsonData' = [jsonData EXCEPT ![r] = EmptyBytes]
    /\ message' = [message EXCEPT ![r] = NoMessage]
    /\ attempts' = [attempts EXCEPT ![r] = NoAttempts]
    /\ sent' = [sent EXCEPT ![r] = {}]
    /\ startSet' = [startSet EXCEPT ![r] = {}]
    /\ UNCHANGED << snapshotVars, wsConnections, wsConnMutex, cur, connVars,
                    data >>
    /\ UNCHANGED << method, playVars >>

\* lines 223-226: s.mu.Unlock(), then w.WriteHeader(http.StatusOK); the
\* handler returns and its locals are gone.
TelemetryUnlock(r) ==
    /\ pc[r] = "unlock"
    /\ mu' = None
    /\ status' = [status EXCEPT ![r] = 200]
    /\ pc' = [pc EXCEPT ![r] = "done"]
    /\ body' = [body EXCEPT ![r] = EmptyBytes]
    /\ dataType' = [dataType EXCEPT ![r] = ""]
    /\ jsonData' = [jsonData EXCEPT ![r] = EmptyBytes]
    /\ message' = [message EXCEPT ![r] = NoMessage]
    /\ attempts' = [attempts EXCEPT ![r] = NoAttempts]
    /\ sent' = [sent EXCEPT ![r] = {}]
    /\ startSet' = [startSet EXCEPT ![r] = {}]
    /\ UNCHANGED << snapshotVars, wsConnections, wsConnMutex, cur, connVars,
                    data >>
    /\ UNCHANGED << method, playVars >>

\* ------------------------------------------------- handleGetTelemetryData
\* Mutant: the pull does not wait for the snapshot lock.
PullLockNoWait(r) ==
    /\ Arrives(r)
    /\ mu' = ReqHolder(r)
    /\ status' = [status EXCEPT ![r] = 0]
    /\ pc' = [pc EXCEPT ![r] = "p_len"]
    /\ UNCHANGED << snapshotVars, hubVars, connVars, localVars >>
    /\ method' = [method EXCEPT ![r] = ""]
    /\ UNCHANGED playVars

\* line 230: s.mu.Lock()
PullLock(r) ==
    /\ Arrives(r)
    /\ MuFree
    /\ mu' = ReqHolder(r)
    /\ status' = [status EXCEPT ![r] = 0]
    /\ pc' = [pc EXCEPT ![r] = "p_len"]
    /\ UNCHANGED << snapshotVars, hubVars, connVars, localVars >>
    /\ method' = [method EXCEPT ![r] = ""]
    /\ UNCHANGED playVars

\* Mutant: the pull answers 204 whatever the buffer holds.
PullEmptyAlways(r) ==
    /\ pc[r] = "p_len"
    /\ status' = [status EXCEPT ![r] = 204]
    /\ mu' = None
    /\ pc' = [pc EXCEPT ![r] = "p_done"]
    /\ UNCHANGED << snapshotVars, hubVars, connVars, localVars >>
    /\ UNCHANGED << method, playVars >>

\* lines 233-236: an empty buffer answers 204; the deferred Unlock runs.
PullEmpty(r) ==
    /\ pc[r] = "p_len"
    /\ IsEmpty(telemetryData)
    /\ status' = [status EXCEPT ![r] = 204]
    /\ mu' = None
    /\ pc' = [pc EXCEPT ![r] = "p_done"]
    /\ UNCHANGED << snapshotVars, hubVars, connVars, localVars >>
    /\ UNCHANGED << method, playVars >>

\* lines 239-249: data := s.telemetryData.Bytes() and the payload from it.
PullData(r) ==
    /\ pc[r] = "p_len"
    /\ ~IsEmpty(telemetryData)
    /\ data' = [data EXCEPT ![r] = telemetryData]
    /\ pc' = [pc EXCEPT ![r] = "p_type"]
    /\ UNCHANGED << snapshotVars, mu, hubVars, connVars, body, dataType,
                    jsonData, message, status >>
    /\ UNCHANGED << method, playVars >>

\* lines 251-257: the response object reads s.telemetryType.
PullType(r) ==
    /\ pc[r] = "p_type"
    /\ message' = [message EXCEPT ![r] = Envelope(telemetryType, data[r])]
    /\ pc' = [pc EXCEPT ![r] = "p_encode"]
    /\ UNCHANGED << snapshotVars, mu, hubVars, connVars, body, dataType,
                    jsonData, data, status >>
    /\ UNCHANGED << method, playVars >>

\* Mutant: a pull that has answered empties the buffer.
PullRespondDrains(r) ==
    /\ pc[r] = "p_encode"
    /\ status' = [status EXCEPT ![r] = 200]
    /\ mu' = None
    /\ pc' = [pc EXCEPT ![r] = "p_done"]
    /\ data' = [data EXCEPT ![r] = EmptyBytes]
    /\ message' = [message EXCEPT ![r] = NoMessage]
    /\ telemetryData' = EmptyBytes
    /\ UNCHANGED << telemetryType, lastPut, hubVars, connVars, body, dataType,
                    jsonData >>
    /\ UNCHANGED << method, playVars >>

\* lines 259-264: the response is encoded; the deferred Unlock runs and the
\* handler returns.
PullRespond(r) ==
    /\ pc[r] = "p_encode"
    /\ status' = [status EXCEPT ![r] = 200]
    /\ mu' = None
    /\ pc' = [pc EXCEPT ![r] = "p_done"]
    /\ data' = [data EXCEPT ![r] = EmptyBytes]
    /\ message' = [message EXCEPT ![r] = NoMessage]
    /\ UNCHANGED << snapshotVars, hubVars, connVars, body, dataType, jsonData >>
    /\ UNCHANGED << method, playVars >>

\* ------------------------------------------------- handleWebSocket
\* Connection slots are taken in arrival order.
ConnArrives(c) ==
    cpc[c] = "idle" /\ (IF c = 1 THEN TRUE ELSE cpc[c - 1] # "idle")

\* lines 269-273: s.wsUpgrader.Upgrade fails; the handler returns.
UpgradeFail(c) ==
    /\ ConnArrives(c)
    /\ cpc' = [cpc EXCEPT ![c] = "done"]
    /\ closed' = [closed EXCEPT ![c] = TRUE]
    /\ net' = [net EXCEPT ![c] = "broken"]
    /\ UNCHANGED << snapshotVars, mu, hubVars, localVars, pc, status >>
    /\ UNCHANGED << method, playVars >>

\* Mutant: the connection is registered without waiting for the set's lock.
RegisterLockNoWait(c) ==
    /\ ConnArrives(c)
    /\ wsConnMutex' = ConnHolder(c)
    /\ cpc' = [cpc EXCEPT ![c] = "reg_add"]
    /\ UNCHANGED << snapshotVars, mu, wsConnections, attempts, cur, sent,
                    startSet, net, closed, localVars, pc, status >>
    /\ UNCHANGED << method, playVars >>

\* lines 269-276: the upgrade succeeds; s.wsConnMutex.Lock()
RegisterLock(c) ==
    /\ ConnArrives(c)
    /\ WsFree
    /\ wsConnMutex' = ConnHolder(c)
    /\ cpc' = [cpc EXCEPT ![c] = "reg_add"]
    /\ UNCHANGED << snapshotVars, mu, wsConnections, attempts, cur, sent,
                    startSet, net, closed, localVars, pc, status >>
    /\ UNCHANGED << method, playVars >>

\* Mutant: the registration, holding the set's lock, waits for the snapshot
\* lock too.
RegisterNeedsMu(c) ==
    /\ cpc[c] = "reg_add"
    /\ MuFree
    /\ wsConnections' = wsConnections \cup {c}
    /\ wsConnMutex' = None
    /\ cpc' = [cpc EXCEPT ![c] = "reading"]
    /\ UNCHANGED << snapshotVars, mu, attempts, cur, sent, startSet, net,
                    closed, localVars, pc, status >>
    /\ UNCHANGED << method, playVars >>

\* lines 277-278: s.wsConnections[conn] = true; Unlock()
Register(c) ==
    /\ cpc[c] = "reg_add"
    /\ wsConnections' = wsConnections \cup {c}
    /\ wsConnMutex' = None
    /\ cpc' = [cpc EXCEPT ![c] = "reading"]
    /\ UNCHANGED << snapshotVars, mu, attempts, cur, sent, startSet, net,
                    closed, localVars, pc, status >>
    /\ UNCHANGED << method, playVars >>

\* lines 292-300: conn.ReadMessage returns a frame, which is discarded, and
\* the loop goes on: nothing of the state changes.
ReadMessage(c) ==
    /\ cpc[c] = "reading"
    /\ net[c] = "ok"
    /\ ~closed[c]
    /\ UNCHANGED vars
    /\ UNCHANGED playVars

\* lines 293-299 and 284: conn.ReadMessage returns an error; break; the
\* deferred function runs s.wsConnMutex.Lock()
UnregisterLock(c) ==
    /\ cpc[c] = "reading"
    /\ (net[c] = "broken" \/ closed[c])
    /\ WsFree
    /\ wsConnMutex' = ConnHolder(c)
    /\ cpc' = [cpc EXCEPT ![c] = "unreg_del"]
    /\ UNCHANGED << snapshotVars, mu, wsConnections, attempts, cur, sent,
                    startSet, net, closed, localVars, pc, status >>
    /\ UNCHANGED << method, playVars >>

\* Mutant: removing a connection that is not in the map empties the map.
UnregisterStrict(c) ==
    /\ cpc[c] = "unreg_del"
    /\ wsConnections' = IF c \in wsConnections THEN wsConnections \ {c} ELSE {}
    /\ wsConnMutex' = None
    /\ closed' = [closed EXCEPT ![c] = TRUE]
    /\ net' = [net EXCEPT ![c] = "broken"]
    /\ cpc' = [cpc EXCEPT ![c] = "done"]
    /\ UNCHANGED << snapshotVars, mu, attempts, cur, sent, startSet, localVars,
                    pc, status >>
    /\ UNCHANGED << method, playVars >>

\* lines 285-288: delete(s.wsConnections, conn); Unlock(); conn.Close()
Unregister(c) ==
    /\ cpc[c] = "unreg_del"
    /\ wsConnections' = wsConnections \ {c}
    /\ wsConnMutex' = None
    /\ closed' = [closed EXCEPT ![c] = TRUE]
    /\ net' = [net EXCEPT ![c] = "broken"]
    /\ cpc' = [cpc EXCEPT ![c] = "done"]
    /\ UNCHANGED << snapshotVars, mu, attempts, cur, sent, startSet, localVars,
                    pc, status >>
    /\ UNCHANGED << method, playVars >>

\* ------------------------------------------------- the peers
\* An upgraded connection that has not been closed.
Connected(c) == cpc[c] \notin {"idle", "done"} /\ ~closed[c]

\* The peer stops reading: a write to it does not return (no write deadline
\* is ever set on the connection).
PeerStall(c) ==
    /\ Connected(c)
    /\ net[c] = "ok"
    /\ net' = [net EXCEPT ![c] = "stalled"]
    /\ UNCHANGED << snapshotVars, mu, hubVars, cpc, closed, localVars,
                    pc, status >>
    /\ UNCHANGED << method, playVars >>

\* The peer reads again.
PeerResume(c) ==
    /\ net[c] = "stalled"
    /\ net' = [net EXCEPT ![c] = "ok"]
    /\ UNCHANGED << snapshotVars, mu, hubVars, cpc, closed, localVars,
                    pc, status >>
    /\ UNCHANGED << method, playVars >>

\* The peer disconnects or the transport fails: reads and writes error.
PeerBreak(c) ==
    /\ Connected(c)
    /\ net[c] # "broken"
    /\ net' = [net EXCEPT ![c] = "broken"]
    /\ UNCHANGED << snapshotVars, mu, hubVars, cpc, closed, localVars,
                    pc, status >>
    /\ UNCHANGED << method, playVars >>

\* ------------------------------------------------- specification
RequestStep(r) ==
    \/ MethodNotAllowed(r)
    \/ ReadBodyFail(r)
    \/ HandleTelemetry(r)
    \/ TelemetryLock(r)
    \/ TelemetryReset(r)
    \/ TelemetryWrite(r)
    \/ TelemetrySetType(r)
    \/ TelemetryBuild(r)
    \/ BroadcastLock(r)
    \/ BroadcastNext(r)
    \/ BroadcastWriteOk(r)
    \/ BroadcastWriteFail(r)
    \/ BroadcastUnlock(r)
    \/ TelemetryUnlock(r)
    \/ PullLock(r)
    \/ PullEmpty(r)
    \/ PullData(r)
    \/ PullType(r)
    \/ PullRespond(r)

ConnStep(c) ==
    \/ UpgradeFail(c)
    \/ RegisterLock(c)
    \/ Register(c)
    \/ ReadMessage(c)
    \/ UnregisterLock(c)
    \/ Unregister(c)

PeerStep(c) ==
    \/ PeerStall(c)
    \/ PeerResume(c)
    \/ PeerBreak(c)

Next ==
    \/ \E r \in Requests : RequestStep(r)
    \/ \E c \in Conns : ConnStep(c)
    \/ \E c \in Conns : PeerStep(c)

Spec == Init /\ [][Next]_vars

(***************************************************************************)
(* Fairness.  A goroutine that can run does run; a goroutine waiting in    *)
(* sync.Mutex.Lock gets the mutex if it is released again and again (the   *)
(* mutex hands over to a starving waiter); a WriteMessage returns if the   *)
(* peer reads again and again.  A handler is at one position at a time, so *)
(* this is strong fairness of the steps of each handler that has started.  *)
(* Nothing makes a request or a connection arrive, nor a peer read, resume *)
(* or disconnect.                                                          *)
(***************************************************************************)
RequestProgress(r) ==
    \/ TelemetryLock(r)
    \/ TelemetryReset(r)
    \/ TelemetryWrite(r)
    \/ TelemetrySetType(r)
    \/ TelemetryBuild(r)
    \/ BroadcastLock(r)
    \/ BroadcastNext(r)
    \/ BroadcastWriteOk(r)
    \/ BroadcastWriteFail(r)
    \/ BroadcastUnlock(r)
    \/ TelemetryUnlock(r)
    \/ PullEmpty(r)
    \/ PullData(r)
    \/ PullType(r)
    \/ PullRespond(r)

ConnProgress(c) ==
    \/ Register(c)
    \/ UnregisterLock(c)
    \/ Unregister(c)

FairSpec ==
    /\ Spec
    /\ \A r \in Requests : SF_vars(RequestProgress(r))
    /\ \A c \in Conns : SF_vars(ConnProgress(c))

(***************************************************************************)
(* Classification over every kind of body.  One request at a time posts    *)
(* any body of AllBodies and runs handleTelemetry to its end, with no      *)
(* subscriber connected (the range loop of the broadcast has no key to     *)
(* yield), and may pull in between.                                        *)
(***************************************************************************)
JsonKeys == {"resourceSpans", "resourceMetrics", "resourceLogs", "other"}

\* Valid JSON text whose top level is not an object (a number, an array...).
JsonVal(id) == [enc |-> "jsonval", keys |-> {}, dec |-> {}, n |-> id]

AllBodies ==
    {JsonObj(ks, 1) : ks \in SUBSET JsonKeys}
        \cup {JsonVal(1)}
        \cup {Bin(ds, 1) : ds \in SUBSET Schemas}
        \cup {EmptyBytes}

HandleTelemetryAny(r) ==
    /\ \E b \in AllBodies : ReadAndClassify(r, b)
    /\ method' = [method EXCEPT ![r] = "POST"]
    /\ UNCHANGED playVars

ClassifyNext ==
    \/ HandleTelemetryAny(1)
    \/ TelemetryLock(1)
    \/ TelemetryReset(1)
    \/ TelemetryWrite(1)
    \/ TelemetrySetType(1)
    \/ TelemetryBuild(1)
    \/ BroadcastLock(1)
    \/ BroadcastUnlock(1)
    \/ TelemetryUnlock(1)
    \/ PullLock(1)
    \/ PullEmpty(1)
    \/ PullData(1)
    \/ PullType(1)
    \/ PullRespond(1)

ClassifySpec == Init /\ [][ClassifyNext]_vars

\* ------------------------------------------------- the page (web/script.js)
(***************************************************************************)
(* One page: a TelemetryVisualizer receiving envelopes on its WebSocket    *)
(* and playing the buffered trace ids.  JavaScript runs one callback at a  *)
(* time, so every callback is one step.  A queued item is identified by    *)
(* its rank among the items ever pushed.  What the page sees of a message  *)
(* is its type, the number of spans the analyzer counts in its payload     *)
(* and the number of those that carry a traceId; only a traces envelope    *)
(* has spans.                                                              *)
(***************************************************************************)
\* n spans, each with a traceId and without error.
Burst(n) == [i \in 1..n |-> Span(TRUE, FALSE)]

TracesOf(ss) == Payload({"resourceSpans"}, ss, << >>, << >>)
MetricsOf(ps) == Payload({"resourceMetrics"}, << >>, ps, << >>)
LogsOf(ls) == Payload({"resourceLogs"}, << >>, << >>, ls)

\* A message as ws.onmessage sees it: data.type, whether data.payload is
\* truthy, and the payload.
Msg(k, p) == [type |-> k, truthy |-> TRUE, payload |-> p]

\* The messages of a playback session: traces envelopes of 0, 1, 20 and 201
\* spans, one of two spans of which the second has no traceId, and a metrics
\* envelope without data points.
Messages ==
    {Msg("traces", TracesOf(Burst(n))) : n \in {0, 1, 20, 201}}
        \cup {Msg("traces", TracesOf(<< Span(TRUE, FALSE), Span(FALSE, FALSE) >>)),
              Msg("metrics", MetricsOf(<< >>))}

\* script.js line 283: the shortest delay.
floorPlaybackRate == 1

\* Mutant: the delay is at most halved by one adjustment.
AdjustedRateGradual(queueLength) ==
    Max2(currentPlaybackRate \div 2,
         IF queueLength > 200 THEN floorPlaybackRate
         ELSE IF queueLength > 100 THEN 2
         ELSE IF queueLength > 50 THEN 5
         ELSE IF queueLength > 20 THEN 10
         ELSE IF queueLength < 5 THEN basePlaybackRate * 2
         ELSE basePlaybackRate)

\* adjustPlaybackRate, lines 277-300, as a function of the queue length.
AdjustedRate(queueLength) ==
    IF queueLength > 200 THEN floorPlaybackRate
    ELSE IF queueLength > 100 THEN 2
    ELSE IF queueLength > 50 THEN 5
    ELSE IF queueLength > 20 THEN 10
    ELSE IF queueLength < 5 THEN basePlaybackRate * 2
    ELSE basePlaybackRate

\* Mutant: one item is pushed per span counted, with or without a traceId.
PushedPerSpan(a) == [i \in 1..a.traces.count |-> enqueued + i]

\* lines 123-125: the trace ids of an analysis, pushed in the analyzer's
\* order.
Pushed(a) == [i \in 1..Len(a.traces.traceIds) |-> enqueued + i]

\* An activity of 1: activities are whole multiples of 1/ActivityUnit, fine
\* enough for a sample in hundredths decayed once per message received.
ActivityUnit == 100 * 20 ^ MaxEnvelopes

\* lines 81-87 and 90.
TraceActivity(a) == Min2(a.traces.count * (ActivityUnit \div 10), ActivityUnit)
MetricActivity(a) ==
    Max2(Max2(a.metrics.cpu, a.metrics.memory), a.metrics.disk) * (ActivityUnit \div 100)
LogActivity(a) == Min2(a.logs.totalCount * (ActivityUnit \div 10), ActivityUnit)
NewActivity(a) == Max2(Max2(TraceActivity(a), MetricActivity(a)), LogActivity(a))

\* line 91: Math.max(this.currentActivity * 0.95, newActivity, 0.1)
Smoothed(activity, sample) ==
    Max2(Max2((activity \div 20) * 19, sample), ActivityUnit \div 10)

\* Mutant: the level is the metric activity rounded down to a tenth.
DetectedLevelTenths(metricActivity) ==
    Max2(1, Min2(10, metricActivity \div (ActivityUnit \div 10)))

\* lines 96-105: the level of a metric activity, in tenths.
DetectedLevel(metricActivity) ==
    IF metricActivity < 20 * (ActivityUnit \div 100) THEN 1
    ELSE IF metricActivity < 45 * (ActivityUnit \div 100) THEN 3
    ELSE IF metricActivity < 80 * (ActivityUnit \div 100) THEN 6
    ELSE 10

\* updateSkyGradient, lines 146-154: the sky layer of a level.
SkyOf(targetLevel) ==
    IF targetLevel <= 1 THEN "sky-low"
    ELSE IF targetLevel <= 3 THEN "sky-medium"
    ELSE IF targetLevel <= 6 THEN "sky-high"
    ELSE "sky-stress"

\* ws.onmessage, lines 53-63, and updateVisualization, lines 79-134, for the
\* message m (error blooms, which have no state of their own, are left out).
OnMessageOf(m) ==
    /\ wsLive
    /\ envelopes < MaxEnvelopes
    /\ envelopes' = envelopes + 1
    /\ IF ~m.truthy
       THEN UNCHANGED << traceQueue, enqueued, currentPlaybackRate,
                         indicatorVars >>
       ELSE LET a == AnalyzeTelemetry(m.payload)
            IN /\ analyzed' = a
               /\ currentActivity' = Smoothed(currentActivity, NewActivity(a))
               /\ IF /\ m.type = "metrics"
                     /\ MetricActivity(a) > 0
                     /\ DetectedLevel(MetricActivity(a)) # targetMetricLevel
                  THEN /\ targetMetricLevel' = DetectedLevel(MetricActivity(a))
                       /\ currentSkyId' = SkyOf(targetMetricLevel')
                  ELSE UNCHANGED << targetMetricLevel, currentSkyId >>
               /\ IF m.type = "traces" /\ a.traces.count > 0
                  THEN /\ traceQueue' = traceQueue \o Pushed(a)
                       /\ enqueued' = enqueued + Len(a.traces.traceIds)
                       /\ currentPlaybackRate' = AdjustedRate(Len(traceQueue'))
                  ELSE UNCHANGED << traceQueue, enqueued, currentPlaybackRate >>
    /\ UNCHANGED << timers, timerDelay, presented, wsLive, reconnects >>
    /\ UNCHANGED vars

\* A message of a playback session is received.
OnMessage == \E m \in Messages : OnMessageOf(m)

\* Mutant: the wake takes the newest item of the queue.
PlayNextTracePop ==
    /\ timers > 0
    /\ IF Len(traceQueue) > 0
       THEN /\ presented' = Append(presented, traceQueue[Len(traceQueue)])
            /\ traceQueue' = SubSeq(traceQueue, 1, Len(traceQueue) - 1)
       ELSE UNCHANGED << presented, traceQueue >>
    /\ timers' = (timers - 1) + 1
    /\ timerDelay' = currentPlaybackRate
    /\ UNCHANGED << currentPlaybackRate, enqueued, envelopes, wsLive,
                    reconnects, indicatorVars >>
    /\ UNCHANGED vars

\* Mutant: the loop stops when it has emptied the queue.
PlayNextTraceUntilEmpty ==
    /\ timers > 0
    /\ IF Len(traceQueue) > 0
       THEN /\ presented' = Append(presented, Head(traceQueue))
            /\ traceQueue' = Tail(traceQueue)
       ELSE UNCHANGED << presented, traceQueue >>
    /\ timers' = IF Len(traceQueue') > 0 THEN timers ELSE timers - 1
    /\ timerDelay' = currentPlaybackRate
    /\ UNCHANGED << currentPlaybackRate, enqueued, envelopes, wsLive,
                    reconnects, indicatorVars >>
    /\ UNCHANGED vars

\* Mutant: the wake recomputes the delay from the queue length.
PlayNextTraceAdjusts ==
    /\ timers > 0
    /\ IF Len(traceQueue) > 0
       THEN /\ presented' = Append(presented, Head(traceQueue))
            /\ traceQueue' = Tail(traceQueue)
       ELSE UNCHANGED << presented, traceQueue >>
    /\ timers' = (timers - 1) + 1
    /\ currentPlaybackRate' = AdjustedRate(Len(traceQueue'))
    /\ timerDelay' = currentPlaybackRate'
    /\ UNCHANGED << enqueued, envelopes, wsLive, reconnects, indicatorVars >>
    /\ UNCHANGED vars

\* playNextTrace, lines 304-312: a pending wake fires; the head of the queue,
\* if any, goes to createRaindrop; the next wake is scheduled.
PlayNextTrace ==
    /\ timers > 0
    /\ IF Len(traceQueue) > 0
       THEN /\ presented' = Append(presented, Head(traceQueue))
            /\ traceQueue' = Tail(traceQueue)
       ELSE UNCHANGED << presented, traceQueue >>
    /\ timers' = (timers - 1) + 1
    /\ timerDelay' = currentPlaybackRate
    /\ UNCHANGED << currentPlaybackRate, enqueued, envelopes, wsLive,
                    reconnects, indicatorVars >>
    /\ UNCHANGED vars

\* ws.onclose, lines 65-69: the socket is gone and a reconnect is scheduled.
WsClose ==
    /\ wsLive
    /\ reconnects < MaxReconnects
    /\ wsLive' = FALSE
    /\ UNCHANGED << traceQueue, currentPlaybackRate, timers, timerDelay,
                    presented, enqueued, envelopes, reconnects, indicatorVars >>
    /\ UNCHANGED vars

\* Mutant: a reconnection starts the playback loop again.
WsReconnectRestarts ==
    /\ ~wsLive
    /\ wsLive' = TRUE
    /\ reconnects' = reconnects + 1
    /\ timers' = timers + 1
    /\ timerDelay' = currentPlaybackRate
    /\ UNCHANGED << traceQueue, currentPlaybackRate, presented, enqueued,
                    envelopes, indicatorVars >>
    /\ UNCHANGED vars

\* connectWebSocket, lines 46-48, run by the reconnect timer.
WsReconnect ==
    /\ ~wsLive
    /\ wsLive' = TRUE
    /\ reconnects' = reconnects + 1
    /\ UNCHANGED << traceQueue, currentPlaybackRate, timers, timerDelay,
                    presented, enqueued, envelopes, indicatorVars >>
    /\ UNCHANGED vars

PlayNext ==
    \/ OnMessage
    \/ PlayNextTrace
    \/ WsClose
    \/ WsReconnect

PlaySpec == Init /\ [][PlayNext]_playVars

\* The timer of the playback loop fires: a pending setTimeout callback is
\* eventually run by the event loop.
FairPlaySpec == PlaySpec /\ WF_playVars(PlayNextTrace)

\* ------------------------------------------ the indicators of the page
\* One gauge data point of a metric, asDouble in hundredths.
Gauge(nm, v) == MetricsOf(<< Point(nm, "gauge", v) >>)

\* One data point of the sum system.disk.io, asInt in hundreds.
DiskSum(v) == MetricsOf(<< Point("system.disk.io", "sum", v) >>)

\* A message whose data.payload is not truthy, line 56: the envelope the
\* server broadcasts for a body that is the JSON null, false, 0 or "".
FalsyMsg(k) == [type |-> k, truthy |-> FALSE, payload |-> NoPayload]

\* The messages of an indicator session.  Metrics envelopes: cpu gauges in
\* and across the four bins, below 0 and above 1; a memory gauge on a bin
\* boundary; disk counters below and above the cap; two points of one
\* envelope; a metric of the wrong kind and an envelope without points (no
\* metric activity).  A traces envelope of three spans, one with error
\* status; logs envelopes; an empty traces and an empty logs envelope; an
\* envelope of unknown type; a message without payload.
Samples ==
    {Msg("metrics", Gauge("system.cpu.utilization", v)) :
            v \in {0 - 10, 15, 19, 30, 50, 70, 90, 150}}
        \cup {Msg("metrics", Gauge("system.memory.utilization", 45)),
              Msg("metrics", DiskSum(25)),
              Msg("metrics", DiskSum(200)),
              Msg("metrics", MetricsOf(<< Point("system.cpu.utilization", "gauge", 30),
                                          Point("system.memory.utilization", "gauge", 15) >>)),
              Msg("metrics", MetricsOf(<< Point("system.cpu.utilization", "sum", 90) >>)),
              Msg("metrics", MetricsOf(<< >>)),
              Msg("traces", TracesOf(<< Span(TRUE, FALSE), Span(TRUE, TRUE),
                                        Span(TRUE, FALSE) >>)),
              Msg("traces", TracesOf(<< >>)),
              Msg("logs", LogsOf(<< LogRecord("ERROR", 0), LogRecord("INFO", 9) >>)),
              Msg("logs", LogsOf(<< LogRecord("", 17), LogRecord("FATAL", 21),
                                    LogRecord("WARN", 13) >>)),
              Msg("logs", LogsOf(<< >>)),
              Msg("unknown", NoPayload),
              FalsyMsg("unknown")}

\* A message of an indicator session is received.
OnSample == \E m \in Samples : OnMessageOf(m)

IndicatorNext ==
    \/ OnSample
    \/ PlayNextTrace

IndicatorSpec == Init /\ [][IndicatorNext]_playVars

\* ------------------------------------------------- derived predicates
\* A POST whose body has been read and which has not returned yet.
Accepted(r) ==
    pc[r] \in {"lock", "reset", "write", "settype", "build", "bc_lock",
               "bc_iter", "bc_write", "unlock"}

\* The request is inside broadcastToWebSockets, holding the set's lock.
InBroadcast(r) == pc[r] \in {"bc_iter", "bc_write"}

\* The request has called broadcastToWebSockets and has not returned from
\* handleTelemetry.
Published(r) == pc[r] \in {"bc_iter", "bc_write", "unlock"}

\* The connections whose write by this broadcast returned an error.
Failed(r) == {c \in Produced(r) : c \notin sent[r] /\ cur[r] # c}

\* ------------------------------------------------- claims
(***************************************************************************)
(* C1.  A POST whose body was read leaves handleTelemetry only through the *)
(* 200 response, whatever its kind and whatever the broadcast met; when it *)
(* does, the snapshot holds the kind and the bytes this request wrote.     *)
(* A broadcast that found no subscriber made no write.  Whenever the       *)
(* snapshot lock is free after a store, the snapshot is that store's pair  *)
(* and is not empty, so the next pull answers with it.                     *)
(***************************************************************************)
C1_Returns(r) ==
    /\ pc[r] = "unlock"
    /\ status'[r] = 200
    /\ dataType[r] \in Kinds
    /\ telemetryType = PutOf(r).kind
    /\ telemetryData = PutOf(r).payload
    /\ lastPut = PutOf(r)
    /\ (startSet[r] = {} => attempts[r] = NoAttempts /\ sent[r] = {})

C1_SnapshotKept ==
    (mu = None /\ lastPut.kind # "") =>
        /\ ~IsEmpty(telemetryData)
        /\ telemetryType = lastPut.kind
        /\ telemetryData = lastPut.payload

C1_IngestAlwaysSucceeds ==
    /\ []C1_SnapshotKept
    /\ [][\A r \in Requests :
            (Accepted(r) /\ ~Accepted(r)') => (pc'[r] = "done" /\ C1_Returns(r))]_vars

\* An ingestion of an unknown payload has returned 200 with no subscriber
\* ever connected, and the snapshot it stored is there for the next pull.
C1_Witness ==
    \E r \in Requests :
        /\ pc[r] = "done"
        /\ status[r] = 200
        /\ \A c \in Conns : cpc[c] = "idle"
        /\ mu = None
        /\ telemetryType = "unknown"
        /\ lastPut.payload = Bin({}, 4)

(***************************************************************************)
(* C2.  A broadcast calls WriteMessage at most once per connection, only   *)
(* on connections that were in the map when it took the lock, and when the *)
(* loop is over it has called it on every one of them.                     *)
(***************************************************************************)
C2_OneAttemptEach ==
    \A r \in Requests :
        Published(r) =>
            /\ \A c \in Conns : attempts[r][c] <= 1
            /\ Produced(r) \subseteq startSet[r]
            /\ (InBroadcast(r) => Remaining(r) = startSet[r] \ Produced(r))
            /\ (pc[r] = "unlock" => Produced(r) = startSet[r])

\* A broadcast over two subscribers: the write to the first one failed and
\* that one was removed; the write to the second one is in progress.
C2_Witness ==
    \E r \in Requests :
        /\ pc[r] = "bc_write"
        /\ Cardinality(startSet[r]) = 2
        /\ Cardinality(Failed(r)) = 1
        /\ cur[r] \in startSet[r] \ Failed(r)
        /\ attempts[r][cur[r]] = 1

(***************************************************************************)
(* C3.  Fault isolation.  A connection whose write failed is closed and    *)
(* out of the map, and a closed connection is never in the map, so no      *)
(* later broadcast starts with it; between two writes of a broadcast the   *)
(* map is the starting set less the failed connections, so the others are  *)
(* still registered, and those already reached have been sent the          *)
(* envelope; the ingestion then answers 200.                               *)
(***************************************************************************)
C3_Isolated ==
    /\ \A c \in Conns : closed[c] => c \notin wsConnections
    /\ \A r \in Requests :
          Published(r) =>
              /\ \A c \in Failed(r) : closed[c] /\ c \notin wsConnections
              /\ \A q \in Requests : Published(q) => Failed(r) \cap startSet[q] \subseteq Failed(q)
              /\ (InBroadcast(r) =>
                    /\ wsConnections = startSet[r] \ Failed(r)
                    /\ sent[r] = Produced(r) \ (Failed(r) \cup {cur[r]}))

C3_FaultIsolation ==
    /\ []C3_Isolated
    /\ [][\A r \in Requests :
            (pc[r] = "unlock" /\ pc'[r] # "unlock") =>
                (pc'[r] = "done" /\ status'[r] = 200)]_vars

\* The loop of a broadcast over two subscribers is over and the lock still
\* held: the failed one is closed and gone, the other has the envelope and
\* is still in the map.
C3_Witness ==
    \E r \in Requests : \E c, d \in Conns :
        /\ pc[r] = "bc_iter"
        /\ Remaining(r) = {}
        /\ startSet[r] = {c, d}
        /\ Failed(r) = {c}
        /\ closed[c]
        /\ sent[r] = {d}
        /\ wsConnections = {d}

\* The request is inside handleGetTelemetryData, between its reads of the
\* snapshot.
InPull(r) == pc[r] \in {"p_len", "p_type", "p_encode"}

\* The request is between the Reset of the buffer and the assignment of the
\* kind: the snapshot is half written.
Storing(r) == pc[r] \in {"write", "settype"}

(***************************************************************************)
(* C4.  Last write wins.  A pull answers with the pair of the most         *)
(* recently completed store: once a store has completed it does not find   *)
(* the buffer empty, the bytes it reads are that store's bytes and its     *)
(* response is the envelope of that store's kind and bytes.                *)
(***************************************************************************)
C4_LastWriteWins ==
    \A j \in Requests :
        /\ (pc[j] = "p_len" /\ lastPut.kind # "" => ~IsEmpty(telemetryData))
        /\ (pc[j] = "p_type" => data[j] = lastPut.payload)
        /\ (pc[j] = "p_encode" =>
              message[j] = Envelope(lastPut.kind, lastPut.payload))

\* A pull holds its response, the envelope of the last store, while another
\* ingestion, of another payload, has arrived and waits for its turn.
C4_Witness ==
    \E j, r \in Requests :
        /\ pc[j] = "p_encode"
        /\ message[j].type = "logs"
        /\ message[j] = Envelope(lastPut.kind, lastPut.payload)
        /\ pc[r] = "lock"
        /\ PutOf(r) # lastPut

(***************************************************************************)
(* C5.  Snapshot atomicity.  While a pull is between its reads of the      *)
(* snapshot no ingestion is half-way through its store, and the snapshot   *)
(* it reads is whole: either nothing was ever stored, or the kind and the  *)
(* bytes are those of one and the same store and the buffer is not empty.  *)
(***************************************************************************)
SnapshotWhole ==
    \/ /\ lastPut.kind = ""
       /\ telemetryType = ""
       /\ IsEmpty(telemetryData)
    \/ /\ lastPut.kind \in Kinds
       /\ telemetryType = lastPut.kind
       /\ telemetryData = lastPut.payload
       /\ ~IsEmpty(telemetryData)

C5_SnapshotAtomic ==
    \A j \in Requests :
        InPull(j) =>
            /\ \A r \in Requests : ~Storing(r) /\ pc[r] # "reset"
            /\ SnapshotWhole
            /\ mu = ReqHolder(j)

\* A pull is between its two reads of a stored snapshot while an ingestion of
\* another kind has arrived and is kept waiting.
C5_Witness ==
    \E j, r \in Requests :
        /\ pc[j] = "p_type"
        /\ telemetryType = "traces"
        /\ pc[r] = "lock"
        /\ dataType[r] = "metrics"

(***************************************************************************)
(* C6.  The envelope an ingestion broadcasts is made of the kind and the   *)
(* bytes this same ingestion stored, the snapshot still holds that pair    *)
(* for as long as the broadcast lasts, and the envelope's kind agrees with *)
(* its payload: a payload of a known kind is a JSON object that carries no *)
(* marker of a kind taking precedence, and an unknown one carries no       *)
(* marker at all.  (A decoded request without content renders as the       *)
(* empty object, which carries no marker and agrees with its kind.)        *)
(***************************************************************************)
StructKind(d) ==
    IF d.enc # "json" THEN "unknown"
    ELSE IF "resourceSpans" \in d.keys THEN "traces"
    ELSE IF "resourceMetrics" \in d.keys THEN "metrics"
    ELSE IF "resourceLogs" \in d.keys THEN "logs"
    ELSE "unknown"

Agrees(kind, d) ==
    /\ StructKind(d) \in {kind, "unknown"}
    /\ (kind # "unknown" => d.enc = "json")

C7_NoWriteUnderLock ==
    \A r \in Requests :
        pc[r] = "bc_write" =>
            /\ mu # ReqHolder(r)
            /\ wsConnMutex # ReqHolder(r)

(***************************************************************************)
(* C8.  Every ingestion whose body was read eventually responds, whatever  *)
(* the subscribers do (checked under FairSpec: every goroutine that can    *)
(* run does, and no peer is made to read or to disconnect).                *)
(***************************************************************************)
C8_IngestionResponds ==
    \A r \in Requests : Accepted(r) ~> (pc[r] = "done")

(***************************************************************************)
(* C9.  At most one goroutine is inside a critical section of the          *)
(* subscriber set: registering, unregistering, or iterating and sending.   *)
(***************************************************************************)
InSetSection ==
    {ReqHolder(r) : r \in {q \in Requests : InBroadcast(q)}}
        \cup {ConnHolder(c) : c \in {d \in Conns : cpc[d] \in {"reg_add", "unreg_del"}}}

C9_SetMutualExclusion ==
    /\ Cardinality(InSetSection) <= 1
    /\ (InSetSection # {} => wsConnMutex \in InSetSection)
    /\ (InSetSection = {} => wsConnMutex = None)

\* A broadcast is writing to one subscriber while the read loop of another
\* has ended and its unregistration has to wait, and a new connection too.
C9_Witness ==
    \E r \in Requests : \E c, d \in Conns :
        /\ pc[r] = "bc_write"
        /\ cur[r] = c
        /\ d # c
        /\ cpc[d] = "reading"
        /\ net[d] = "broken"
        /\ d \in wsConnections

(***************************************************************************)
(* C10.  A subscriber that is in the map when a broadcast starts and whose *)
(* peer keeps reading is eventually sent that broadcast's envelope         *)
(* (checked under FairSpec).                                               *)
(***************************************************************************)
C10_SubscriberReceives ==
    \A r \in Requests : \A c \in Conns :
        (InBroadcast(r) /\ c \in startSet[r]) ~> (c \in sent[r] \/ net[c] # "ok")

(***************************************************************************)
(* C11.  Unregistering is idempotent.  The deferred delete of              *)
(* handleWebSocket leaves the map without the connection and changes       *)
(* nothing else in it: when the connection is already absent (a failed     *)
(* broadcast write removed it) the map is unchanged; no other connection   *)
(* is closed, broken or moved by it.                                       *)
(***************************************************************************)
C11_UnregisterIdempotent ==
    [][\A c \in Conns :
          (cpc[c] = "unreg_del" /\ cpc'[c] = "done") =>
              /\ wsConnections' = wsConnections \ {c}
              /\ (c \notin wsConnections => wsConnections' = wsConnections)
              /\ \A d \in Conns \ {c} :
                    /\ closed'[d] = closed[d]
                    /\ net'[d] = net[d]
                    /\ cpc'[d] = cpc[d]]_vars

\* A broadcast removed a connection whose write failed and released the set;
\* the read loop of that connection then ended and unregistered it again,
\* while the other subscriber, which was sent the envelope, is still there.
C11_Witness ==
    \E r \in Requests : \E c, d \in Conns :
        /\ pc[r] = "unlock"
        /\ c \in Failed(r)
        /\ cpc[c] = "done"
        /\ d # c
        /\ d \in sent[r]
        /\ d \in wsConnections

(***************************************************************************)
(* C12.  A request on an ingestion endpoint whose method is not POST is    *)
(* answered 405 at once and changes nothing: not the snapshot, not the     *)
(* locks, not the subscriber map, no write to a subscriber, no other       *)
(* request.  Only such a request is answered 405.                          *)
(***************************************************************************)
C12_Refused(r) ==
    /\ Arrives(r)
    /\ pc'[r] = "done"
    /\ status'[r] = 405
    /\ UNCHANGED << snapshotVars, mu, hubVars, connVars, localVars >>
    /\ \A q \in Requests \ {r} :
          << pc'[q], status'[q], method'[q] >> = << pc[q], status[q], method[q] >>

C12_NonPostRejected ==
    /\ [](\A r \in Requests :
             /\ (method[r] \notin {"", "POST"} => pc[r] = "done" /\ status[r] = 405)
             /\ (status[r] = 405 => method[r] \notin {"", "POST"}))
    /\ [][\A r \in Requests :
            ( /\ method'[r] \notin {"", "POST"}
              /\ << pc'[r], status'[r], method'[r] >> # << pc[r], status[r], method[r] >> )
                => C12_Refused(r)]_vars

\* A GET on an ingestion endpoint was answered 405 while a snapshot is stored
\* and a subscriber is registered.
C12_Witness ==
    \E r \in Requests :
        /\ pc[r] = "done"
        /\ method[r] = "GET"
        /\ status[r] = 405
        /\ lastPut.kind = "traces"
        /\ telemetryData = lastPut.payload
        /\ wsConnections # {}

(***************************************************************************)
(* C13.  The pull handler answers 204 exactly when nothing has been stored *)
(* yet, and otherwise 200 with the object {type, payload} of the current   *)
(* snapshot: its type is the stored kind, its payload the stored bytes     *)
(* (quoted as a string when they are not JSON), as in the broadcast        *)
(* envelope of the ingestion that stored them.                             *)
(***************************************************************************)
C13_Answer(j) ==
    \/ /\ pc[j] = "p_len"
       /\ status'[j] = 204
       /\ lastPut.kind = ""
    \/ /\ pc[j] = "p_encode"
       /\ status'[j] = 200
       /\ lastPut.kind \in Kinds
       /\ DOMAIN message[j] = {"type", "payload"}
       /\ message[j].type = telemetryType
       /\ message[j].payload = EnvelopePayload(telemetryData)
       /\ message[j] = Envelope(lastPut.kind, lastPut.payload)

C13_PullAnswers ==
    /\ [](\A j \in Requests :
             pc[j] = "p_len" => (IsEmpty(telemetryData) <=> lastPut.kind = ""))
    /\ [][\A j \in Requests :
            (InPull(j) /\ pc'[j] = "p_done") => C13_Answer(j)]_vars

\* A pull is about to answer with the envelope of a stored payload of
\* unknown kind, whose raw bytes are quoted as one string.
C13_Witness ==
    \E j \in Requests :
        /\ pc[j] = "p_encode"
        /\ message[j].type = "unknown"
        /\ message[j].payload = MarshalString(Bin({}, 4))
        /\ telemetryData = Bin({}, 4)

\* The kinds in the order in which their markers and schemas are tried.
KindOrder == << "traces", "metrics", "logs" >>

\* The first kind of KindOrder that is in S, or unknown.
FirstOf(S) ==
    IF S \cap Schemas = {} THEN "unknown"
    ELSE KindOrder[CHOOSE i \in 1..3 :
                      /\ KindOrder[i] \in S
                      /\ \A k \in 1..(i - 1) : KindOrder[k] \notin S]

MarkedKinds(b) == {k \in Schemas : Marker(k) \in b.keys}

\* The request has stored and not yet returned.
Stored(r) == pc[r] \in {"build", "bc_lock", "bc_iter", "bc_write", "unlock"}

(***************************************************************************)
(* C14.  A body that is valid JSON gets the kind of the first marker key   *)
(* present at its top level in the order resourceSpans, resourceMetrics,   *)
(* resourceLogs, unknown when there is none or when the text is not an     *)
(* object, and what is stored is the body itself.                          *)
(***************************************************************************)
C14_JsonClassified ==
    \A r \in Requests :
        (Accepted(r) /\ JsonValid(body[r])) =>
            /\ dataType[r] = IF body[r].enc = "json"
                             THEN FirstOf(MarkedKinds(body[r]))
                             ELSE "unknown"
            /\ jsonData[r] = body[r]
            /\ PutOf(r).payload = body[r]
            /\ (Stored(r) => telemetryData = body[r] /\ telemetryType = dataType[r])

\* A JSON object carrying the metrics and the logs marker, and another key,
\* was stored unchanged as metrics.
C14_Witness ==
    \E r \in Requests :
        /\ pc[r] = "unlock"
        /\ body[r] = JsonObj({"resourceMetrics", "resourceLogs", "other"}, 1)
        /\ telemetryType = "metrics"
        /\ telemetryData = body[r]

C16_Deterministic ==
    \A r \in Requests :
        Accepted(r) =>
            /\ dataType[r] = Classify(body[r]).dataType
            /\ jsonData[r] = Classify(body[r]).jsonData
            /\ \A q \in Requests :
                  (Accepted(q) /\ body[q] = body[r]) => PutOf(q) = PutOf(r)
            /\ (Stored(r) =>
                  lastPut = [kind |-> Classify(body[r]).dataType,
                             payload |-> StoredBytes(Classify(body[r]).jsonData,
                                                     body[r])])

\* The same unknown bytes are being ingested twice: one ingestion has stored
\* them and writes to a subscriber, the other was classified while another
\* snapshot or none was stored and waits for the lock.
C16_Witness ==
    \E r, q \in Requests :
        /\ r # q
        /\ pc[r] = "bc_write"
        /\ pc[q] = "lock"
        /\ body[r] = Bin({}, 4)
        /\ body[q] = body[r]
        /\ PutOf(q) = PutOf(r)
        /\ lastPut = PutOf(r)

(***************************************************************************)
(* C17.  A wake of the playback loop on a non-empty queue hands exactly    *)
(* the head of the queue to createRaindrop and removes it; on an empty     *)
(* queue it presents nothing; nothing else presents an item.  Hence the    *)
(* items presented, followed by those queued, are at any time the items    *)
(* pushed, in the order of their push: none twice, none skipped.           *)
(***************************************************************************)
C17_FifoPlayback ==
    /\ [](presented \o traceQueue = [i \in 1..enqueued |-> i])
    /\ [][PlayNextTrace =>
            IF traceQueue # << >>
            THEN /\ presented' = Append(presented, Head(traceQueue))
                 /\ traceQueue' = Tail(traceQueue)
            ELSE UNCHANGED << presented, traceQueue >>]_playVars
    /\ [][presented' # presented => PlayNextTrace]_playVars

\* Two envelopes, of one and of twenty ids, were received; two items have
\* been presented, in order, and the others wait.
C17_Witness ==
    /\ envelopes = 2
    /\ enqueued = 21
    /\ presented = << 1, 2 >>
    /\ Len(traceQueue) = 19
    /\ Head(traceQueue) = 3

(***************************************************************************)
(* C18.  Exactly one wake of the playback loop is pending between any two  *)
(* callbacks: a wake schedules one successor, and neither a message, nor   *)
(* a change of rate, nor a reconnection of the WebSocket schedules one.    *)
(***************************************************************************)
C18_SingleWake == timers = 1

\* The WebSocket was reconnected, a message changed the rate and an item was
\* presented since; one wake is pending.
C18_Witness ==
    /\ reconnects = 1
    /\ wsLive
    /\ currentPlaybackRate # basePlaybackRate
    /\ timerDelay = currentPlaybackRate
    /\ Len(presented) > 0
    /\ traceQueue # << >>
    /\ timers = 1

\* The band of a queue depth: 0-4, 5-19, 20-49, 50-99, 100-200, above 200.
DepthBand(n) ==
    IF n <= 4 THEN 0
    ELSE IF n <= 19 THEN 1
    ELSE IF n <= 49 THEN 2
    ELSE IF n <= 99 THEN 3
    ELSE IF n <= 200 THEN 4
    ELSE 5

(***************************************************************************)
(* C19.  The delay set by the rate controller is a step function of the    *)
(* queue depth over the bands 0-4, 5-19, 20-49, 50-99, 100-200 and above   *)
(* 200: twice the base delay in the first band, the base delay in the      *)
(* second, and from band to band a shorter delay; so the delay set for a   *)
(* depth is that of every smaller depth of the same band and is shorter    *)
(* than that of every depth of a lower band.                               *)
(***************************************************************************)
C19_DelayBands ==
    [][enqueued' # enqueued =>
          LET n == Len(traceQueue')
              d == currentPlaybackRate'
          IN /\ (DepthBand(n) = 0 => d = 2 * basePlaybackRate)
             /\ (DepthBand(n) = 1 => d = basePlaybackRate)
             /\ \A m \in 0..n :
                   /\ (DepthBand(m) = DepthBand(n) => AdjustedRate(m) = d)
                   /\ (DepthBand(m) < DepthBand(n) => AdjustedRate(m) > d)]_playVars

(***************************************************************************)
(* C20.  The delay of every wake is computed from the queue length at the  *)
(* time it is scheduled: a wake that schedules its successor uses the      *)
(* step function of the length the queue then has (so twice the base       *)
(* delay once the queue has fewer than five items).                        *)
(***************************************************************************)
C20_DelayRecomputed ==
    [][PlayNextTrace => timerDelay' = AdjustedRate(Len(traceQueue'))]_playVars

(***************************************************************************)
(* C21.  When one message takes the queue from empty to more than 200      *)
(* items the delay is at once the floor delay, and the next wake schedules *)
(* its successor with the floor delay: whenever more than 200 items are    *)
(* queued the current delay is the floor.                                  *)
(***************************************************************************)
C21_BurstToFloor ==
    /\ [](Len(traceQueue) > 200 => currentPlaybackRate = floorPlaybackRate)
    /\ [][\A m \in Messages :
            (OnMessageOf(m) /\ traceQueue = << >> /\ Len(traceQueue') > 200) =>
                currentPlaybackRate' = floorPlaybackRate]_playVars
    /\ [][(PlayNextTrace /\ Len(traceQueue) > 200) =>
            timerDelay' = floorPlaybackRate]_playVars

\* The first message brought 201 ids; one wake has fired since, presented
\* the first of them and scheduled the next wake with the floor delay.
C21_Witness ==
    /\ envelopes = 1
    /\ enqueued = 201
    /\ presented = << 1 >>
    /\ Len(traceQueue) = 200
    /\ timerDelay = floorPlaybackRate

(***************************************************************************)
(* C22.  The playback loop never stops: a wake is always pending, and, the *)
(* timer being fair, again and again every item pushed so far has been     *)
(* presented (checked under FairPlaySpec).                                 *)
(***************************************************************************)
C22_NeverStalls ==
    /\ [](timers > 0)
    /\ []<>(Len(presented) = enqueued)

\* Three bursts, of 201, 20 and 1 ids, have all been presented.
C22_Witness ==
    /\ enqueued = 222
    /\ Len(presented) = 222
    /\ traceQueue = << >>
    /\ timers = 1

\* The spans of a payload that carry a traceId.
IdSpans(p) == {i \in DOMAIN p.spans : p.spans[i].traceId}

(***************************************************************************)
(* C23.  A message of type traces whose payload has at least one span      *)
(* appends one item per span that carries a traceId, in the order of the   *)
(* spans, and any other message leaves the queue as it is; a wake removes  *)
(* one item from a non-empty queue and nothing from an empty one.          *)
(***************************************************************************)
C23_QueueEffects ==
    /\ [][\A m \in Messages :
            OnMessageOf(m) =>
                IF /\ m.type = "traces"
                   /\ "resourceSpans" \in m.payload.fields
                   /\ Len(m.payload.spans) > 0
                THEN /\ Len(traceQueue') = Len(traceQueue) + Cardinality(IdSpans(m.payload))
                     /\ traceQueue' = traceQueue \o
                            [i \in 1..Cardinality(IdSpans(m.payload)) |-> enqueued + i]
                ELSE traceQueue' = traceQueue]_playVars
    /\ [][PlayNextTrace =>
            Len(traceQueue') = IF traceQueue = << >> THEN 0 ELSE Len(traceQueue) - 1]_playVars

\* Twenty ids were pushed and one presented; then a traces message of two
\* spans, one without traceId, added a single item.
C23_Witness ==
    /\ envelopes = 2
    /\ analyzed.traces.count = 2
    /\ Len(analyzed.traces.traceIds) = 1
    /\ enqueued = 21
    /\ presented = << 1 >>
    /\ Len(traceQueue) = 20

\* The bin of a percentage, as the level in tenths: below 20, below 45,
\* below 80, and the rest.
BinOfPercent(pct) ==
    IF pct < 20 THEN 1 ELSE IF pct < 45 THEN 3 ELSE IF pct < 80 THEN 6 ELSE 10

\* The largest of cpu, memory and disk of a message's payload, in percent.
SamplePercent(m) ==
    LET a == AnalyzeTelemetry(m.payload)
    IN Max2(Max2(a.metrics.cpu, a.metrics.memory), a.metrics.disk)

\* A message that carries a metrics sample: a metrics envelope with a
\* payload and some metric activity.
IsMetricSample(m) == m.truthy /\ m.type = "metrics" /\ SamplePercent(m) > 0

\* C24: no flicker.  The level is always unset or one of the four levels.
\* On a received message the level changes only if the message carries a
\* metrics sample whose bin differs from the level, and it then becomes that
\* bin; a metrics sample of the same bin, a non-metrics envelope, a metrics
\* envelope without activity and a message without payload leave the level
\* and the sky as they are.  The sky changes only in a step that changes the
\* level, and a playback wake changes neither.
C24_NoFlicker ==
    /\ [](targetMetricLevel \in {0, 1, 3, 6, 10})
    /\ [][\A m \in Samples : OnMessageOf(m) =>
            /\ (targetMetricLevel' # targetMetricLevel) =>
                    /\ IsMetricSample(m)
                    /\ BinOfPercent(SamplePercent(m)) # targetMetricLevel
            /\ IsMetricSample(m) =>
                    targetMetricLevel' = BinOfPercent(SamplePercent(m))
            /\ (currentSkyId' # currentSkyId) =>
                    /\ targetMetricLevel' # targetMetricLevel
                    /\ currentSkyId' = SkyOf(targetMetricLevel')]_playVars
    /\ [][PlayNextTrace => UNCHANGED << targetMetricLevel, currentSkyId >>]_playVars

\* C24 witness: a cpu sample of 0.50 received right after one of 0.70 (the
\* activity is the decayed 0.70): both fall in the third bin, the level and
\* the sky are those of that bin.
C24_Witness ==
    /\ envelopes = 2
    /\ analyzed.metrics.cpu = 50
    /\ currentActivity = 19 * ((70 * (ActivityUnit \div 100)) \div 20)
    /\ targetMetricLevel = 6
    /\ currentSkyId = "sky-high"

\* The new sample of a received message: the largest of its trace, metric
\* and log activities; a message without payload carries none.
SampleOf(m) == IF m.truthy THEN NewActivity(AnalyzeTelemetry(m.payload)) ELSE 0

\* C25: after every received envelope the activity is the largest of the
\* previous activity times 0.95, the new sample and the floor 0.1, and once
\* an envelope has been received the activity lies between the floor and 1.
C25_SmoothedActivity ==
    /\ [](envelopes > 0 =>
            currentActivity \in (ActivityUnit \div 10)..ActivityUnit)
    /\ [][\A m \in Samples : OnMessageOf(m) =>
            currentActivity' = Max2(Max2((currentActivity * 19) \div 20, SampleOf(m)),
                                    ActivityUnit \div 10)]_playVars

\* C26: the cpu, memory and disk results of the analyzer, for the payload
\* of every envelope analyzed, are percentages between 0 and 100.
C26_MetricsInRange ==
    /\ analyzed.metrics.cpu \in 0..100
    /\ analyzed.metrics.memory \in 0..100
    /\ analyzed.metrics.disk \in 0..100

\* The spans with error status and the log records of error severity of a
\* payload.
ErrorSpans(p) == {i \in DOMAIN p.spans : p.spans[i].error}
ErrorLogs(p) ==
    {i \in DOMAIN p.logs :
        \/ p.logs[i].severityText = "ERROR"
        \/ p.logs[i].severityText = "FATAL"
        \/ p.logs[i].severityNumber >= 17}

\* rate is the fraction errors / total if total > 0, and 0 otherwise.
IsRateOf(rate, errors, total) ==
    /\ rate.den > 0
    /\ IF total > 0
       THEN rate.num * total = errors * rate.den
       ELSE rate.num = 0

\* C27: the error rates of the last analysis are fractions between 0 and 1;
\* for every payload analyzed the traces rate is error spans / spans and the
\* logs rate is error records / records when there are any, and 0 when there
\* are none or when the payload has no resourceSpans (resourceLogs) field;
\* count and totalCount are the numbers of spans and of records.
C27_ErrorRates ==
    /\ [](\A rate \in {analyzed.traces.errorRate, analyzed.logs.errorRate} :
            rate.den > 0 /\ 0 <= rate.num /\ rate.num <= rate.den)
    /\ [][\A m \in Samples : (OnMessageOf(m) /\ m.truthy) =>
            LET p == m.payload
                spans == IF "resourceSpans" \in p.fields THEN Len(p.spans) ELSE 0
                logs == IF "resourceLogs" \in p.fields THEN Len(p.logs) ELSE 0
            IN /\ analyzed'.traces.count = spans
               /\ IsRateOf(analyzed'.traces.errorRate, Cardinality(ErrorSpans(p)), spans)
               /\ analyzed'.logs.totalCount = logs
               /\ IsRateOf(analyzed'.logs.errorRate, Cardinality(ErrorLogs(p)), logs)]_playVars

\* C27 witness: a traces payload of three spans, one with error status, has
\* been analyzed: count 3, error rate 1/3, and no logs (rate 0).
C27_Witness ==
    /\ envelopes > 0
    /\ analyzed.traces.count = 3
    /\ analyzed.traces.errorRate.num * 3 = analyzed.traces.errorRate.den
    /\ analyzed.logs.totalCount = 0
    /\ analyzed.logs.errorRate.num = 0

\* The ingestion has taken the snapshot lock and has not released it: it
\* is storing, or has stored and is broadcasting.
InIngestSection(r) ==
    pc[r] \in {"reset", "write", "settype", "build", "bc_lock", "bc_iter",
               "bc_write", "unlock"}

\* The ingestion has completed its store and has not returned.
HasStored(r) == pc[r] \in {"build", "bc_lock", "bc_iter", "bc_write", "unlock"}

(***************************************************************************)
(* C28.  Broadcast order equals store order.  The store and the broadcast  *)
(* of an ingestion are one critical section of the snapshot lock: from the *)
(* completion of its store to its return the ingestion's store is the most *)
(* recent one and no other ingestion stores or broadcasts.  So every       *)
(* envelope delivered to a subscriber is, at the time of its delivery, the *)
(* envelope of the most recently completed store, sent by the ingestion    *)
(* that made it: deliveries to one subscriber follow the order of the      *)
(* stores.  When a broadcast is over, every subscriber that was registered *)
(* at its start and still is has been sent the envelope of the snapshot,   *)
(* which is what a pull returns.                                           *)
(***************************************************************************)
C28_BroadcastInStoreOrder ==
    /\ [](\A r \in Requests :
            /\ InIngestSection(r) =>
                  /\ mu = ReqHolder(r)
                  /\ \A q \in Requests \ {r} : ~InIngestSection(q)
            /\ HasStored(r) => lastPut = PutOf(r)
            /\ pc[r] = "unlock" =>
                  /\ (startSet[r] \cap wsConnections) \subseteq sent[r]
                  /\ message[r] = Envelope(telemetryType, telemetryData))
    /\ [][\A r \in Requests : BroadcastWriteOk(r) =>
            /\ mu = ReqHolder(r)
            /\ message[r] = Envelope(lastPut.kind, lastPut.payload)
            /\ lastPut' = lastPut
            /\ cur[r] \in startSet[r] \ sent[r]]_vars

\* C28 witness: a broadcast has delivered its envelope, that of the
\* snapshot, to both subscribers, which are still registered, while an
\* ingestion of another payload waits to store.
C28_Witness ==
    \E r, q \in Requests :
        /\ pc[r] = "unlock"
        /\ startSet[r] = Conns
        /\ sent[r] = Conns
        /\ wsConnections = Conns
        /\ message[r] = Envelope(telemetryType, telemetryData)
        /\ pc[q] = "lock"
        /\ PutOf(q) # lastPut

\* A step of a handler that holds a lock.
HolderStep ==
    \/ \E r \in Requests : mu = ReqHolder(r) /\ RequestProgress(r)
    \/ \E c \in Conns : wsConnMutex = ConnHolder(c) /\ ConnProgress(c)

\* No WriteMessage is blocked on a peer that does not read.
NoBlockedWrite ==
    \A r \in Requests : pc[r] = "bc_write" => net[cur[r]] # "stalled"

\* The started handlers that wait for a lock another handler holds: an
\* ingestion for the snapshot lock or for the set's lock, a connection
\* whose read loop has ended for the set's lock.
LockWaiters ==
    {ReqHolder(r) : r \in {q \in Requests :
            \/ pc[q] = "lock" /\ ~MuFree
            \/ pc[q] = "bc_lock" /\ ~WsFree}}
        \cup {ConnHolder(c) : c \in {d \in Conns :
            cpc[d] = "reading" /\ (net[d] = "broken" \/ closed[d]) /\ ~WsFree}}

(***************************************************************************)
(* C29.  Deadlock freedom.  The set's lock is taken by a request only      *)
(* while it holds the snapshot lock (an ingestion, in its broadcast); a    *)
(* pull holds the snapshot lock alone, a connection the set's lock alone,  *)
(* and a request that waits for the snapshot lock holds no lock.  Whenever *)
(* a lock is held and no write is blocked on a peer that does not read, a  *)
(* handler that holds a lock can take a step: the handlers are never all   *)
(* waiting for a lock.                                                     *)
(***************************************************************************)
C29_NoDeadlock ==
    /\ mu \in {None} \cup {ReqHolder(r) : r \in Requests}
    /\ \A r \in Requests :
          /\ wsConnMutex = ReqHolder(r) => mu = ReqHolder(r) /\ InBroadcast(r)
          /\ InPull(r) => mu = ReqHolder(r) /\ wsConnMutex # ReqHolder(r)
          /\ pc[r] = "lock" => mu # ReqHolder(r) /\ wsConnMutex # ReqHolder(r)
    /\ \A c \in Conns :
          wsConnMutex = ConnHolder(c) => cpc[c] \in {"reg_add", "unreg_del"}
    /\ ((mu # None \/ wsConnMutex # None) /\ NoBlockedWrite) => ENABLED HolderStep

\* C29 witness: an ingestion holds the snapshot lock and waits for the set's
\* lock, which a registering connection holds; another ingestion waits for
\* the snapshot lock and a connection whose peer is gone waits to
\* unregister.
C29_Witness ==
    \E r, q \in Requests : \E c, d \in Conns :
        /\ pc[r] = "bc_lock"
        /\ mu = ReqHolder(r)
        /\ wsConnMutex = ConnHolder(c)
        /\ cpc[c] = "reg_add"
        /\ pc[q] = "lock"
        /\ cpc[d] = "reading"
        /\ net[d] = "broken"
        /\ LockWaiters = {ReqHolder(r), ReqHolder(q), ConnHolder(d)}

\* The requests whose WriteMessage on the connection c is in progress.
Writers(c) == {r \in Requests : pc[r] = "bc_write" /\ cur[r] = c}

(***************************************************************************)
(* C30.  At most one WriteMessage is in progress on a connection at any    *)
(* time, and a write starts on a connection only when none is in progress  *)
(* on it: the envelopes of two ingestions are never written to one         *)
(* connection at the same time.                                            *)
(***************************************************************************)
C30_OneWriterPerConn ==
    /\ [](\A c \in Conns : Cardinality(Writers(c)) <= 1)
    /\ [][\A r \in Requests : BroadcastNext(r) =>
            /\ Writers(cur'[r]) = {}
            /\ {q \in Requests : pc'[q] = "bc_write" /\ cur'[q] = cur'[r]} = {r}]_vars

\* C30 witness: an ingestion is writing its envelope to a subscriber whose
\* peer reads, while another ingestion, whose envelope will go to the same
\* subscriber, waits for the snapshot lock.
C30_Witness ==
    \E r, q \in Requests : \E c \in Conns :
        /\ Writers(c) = {r}
        /\ net[c] = "ok"
        /\ c \in wsConnections
        /\ pc[q] = "lock"
        /\ message[r].type = "traces"
        /\ dataType[q] = "metrics"

\* The connection's handler is past its registration and the connection is
\* not in the set: it has been removed, by a failed write or by its own
\* deferred delete (or its upgrade failed and it never was in the set).
Removed(c) == cpc[c] \in {"reading", "unreg_del", "done"} /\ c \notin wsConnections

(***************************************************************************)
(* C31.  A connection that has been removed from the set is closed, stays  *)
(* out of the set, and no publish starts a write to it: no step makes it   *)
(* the connection being written to, nor counts an attempt on it.           *)
(***************************************************************************)
C31_RemovedForGood ==
    /\ [](\A c \in Conns : Removed(c) =>
            /\ closed[c]
            /\ \A r \in Requests : pc[r] = "bc_write" => cur[r] # c)
    /\ [][\A c \in Conns : Removed(c) =>
            /\ Removed(c)'
            /\ \A r \in Requests :
                  /\ cur'[r] # c
                  /\ attempts'[r][c] <= attempts[r][c]]_vars

\* C31 witness: a connection was removed by the failed write of an earlier
\* publish (it is closed while its read loop has not ended yet), and a
\* later publish has written to the other subscriber only.
C31_Witness ==
    \E r \in Requests : \E c, d \in Conns :
        /\ Removed(c)
        /\ cpc[c] = "reading"
        /\ closed[c]
        /\ pc[r] = "unlock"
        /\ startSet[r] = {d}
        /\ sent[r] = {d}
        /\ attempts[r][c] = 0

\* The connections whose handler has registered them at some time.
Upgraded == {c \in Conns : cpc[c] \in {"reading", "unreg_del", "done"}}

(***************************************************************************)
(* C32.  Nothing is sent on registration.  The step that adds a connection *)
(* to the set writes to no connection and is taken while no publish is in  *)
(* progress; the connection is in the start set of no publish begun        *)
(* before.  A publish writes only to connections that were in the set when *)
(* it began, and that set does not change while it lasts.  So a subscriber *)
(* receives only envelopes of publishes begun after its registration.      *)
(***************************************************************************)
C32_NoReplayOnRegister ==
    /\ [](\A r \in Requests :
            /\ sent[r] \subseteq startSet[r]
            /\ startSet[r] \subseteq Upgraded
            /\ pc[r] = "bc_write" => cur[r] \in startSet[r])
    /\ [][\A c \in Conns : (c \notin wsConnections /\ c \in wsConnections') =>
            /\ UNCHANGED << sent, cur, attempts, startSet >>
            /\ \A r \in Requests : ~InBroadcast(r) /\ c \notin startSet[r]]_vars
    /\ [][\A r \in Requests : (InBroadcast(r) /\ InBroadcast(r)') =>
            startSet'[r] = startSet[r]]_vars

\* C32 witness: a connection is about to be added to the set while a traces
\* snapshot is current, the ingestion that stored it has returned after
\* publishing, and the next ingestion waits for its turn.
C32_Witness ==
    \E c \in Conns : \E r, q \in Requests :
        /\ cpc[c] = "reg_add"
        /\ telemetryType = "traces"
        /\ pc[r] = "done"
        /\ status[r] = 200
        /\ pc[q] = "lock"
        /\ wsConnections = Conns \ {c}

(***************************************************************************)
(* C33.  A POST whose body cannot be read is answered with 500 and has no  *)
(* effect: the kind and the bytes of the snapshot, the set of subscribers  *)
(* and the two locks are as before, and no write to a subscriber is made   *)
(* or started.                                                             *)
(***************************************************************************)
C33_ReadFailureHasNoEffect ==
    /\ [][\A r \in Requests : ReadBodyFail(r) =>
            /\ status'[r] = 500
            /\ pc'[r] = "done"
            /\ UNCHANGED << telemetryData, telemetryType, lastPut >>
            /\ UNCHANGED << wsConnections, mu, wsConnMutex >>
            /\ UNCHANGED << sent, cur, attempts, startSet, closed, net >>]_vars

\* C33 witness: a POST has been answered with 500 while the snapshot holds
\* the traces stored before, a subscriber is registered and another
\* ingestion is publishing to it.
C33_Witness ==
    \E r, q \in Requests : \E c \in Conns :
        /\ pc[r] = "done"
        /\ status[r] = 500
        /\ telemetryType = "traces"
        /\ ~IsEmpty(telemetryData)
        /\ pc[q] = "bc_write"
        /\ cur[q] = c
        /\ c \in wsConnections

\* A step of the pull of request r: it enters handleGetTelemetryData, moves
\* inside it or returns from it.
PullStep(r) == pc'[r] # pc[r] /\ (InPull(r) \/ InPull(r)' \/ pc'[r] = "p_done")

(***************************************************************************)
(* C34.  The pull is read-only.  No step of a pull changes the kind or the *)
(* bytes of the snapshot, the set of subscribers or its lock, nor makes or *)
(* starts a write to a subscriber.  The snapshot changes only in a step of *)
(* an ingestion's store, and the response of a pull is the envelope of the *)
(* snapshot as it is: pulls between two stores answer the same envelope.   *)
(***************************************************************************)
C34_PullReadOnly ==
    /\ [][\A r \in Requests : PullStep(r) =>
            /\ UNCHANGED << telemetryData, telemetryType, lastPut >>
            /\ UNCHANGED << wsConnections, wsConnMutex >>
            /\ UNCHANGED << sent, cur, attempts, startSet, closed, net >>]_vars
    /\ [][(telemetryData' # telemetryData \/ telemetryType' # telemetryType) =>
            \E r \in Requests :
                TelemetryReset(r) \/ TelemetryWrite(r) \/ TelemetrySetType(r)]_vars
    /\ [](\A r \in Requests :
            pc[r] = "p_encode" => message[r] = Envelope(telemetryType, telemetryData))

\* C34 witness: a pull holds the envelope of the logs snapshot as its
\* response after an earlier pull has answered 200, with both subscribers
\* registered.
C34_Witness ==
    \E r, q \in Requests :
        /\ pc[r] = "p_encode"
        /\ message[r].type = "logs"
        /\ message[r] = Envelope(telemetryType, telemetryData)
        /\ pc[q] = "p_done"
        /\ status[q] = 200
        /\ wsConnections = Conns

\* The message is a traces envelope with a payload that has at least one
\* span.
BearsTraces(m) ==
    /\ m.truthy
    /\ m.type = "traces"
    /\ "resourceSpans" \in m.payload.fields
    /\ Len(m.payload.spans) > 0

(***************************************************************************)
(* C35.  The playback delay (currentPlaybackRate) changes only on the      *)
(* arrival of a traces envelope with at least one span: it is then the     *)
(* delay adjustPlaybackRate gives for the length of the queue with that    *)
(* envelope's ids appended.  Every other message (metrics, logs, unknown,  *)
(* traces without spans, no payload) and every playback wake leaves it as  *)
(* it is.                                                                  *)
(***************************************************************************)
C35_DelayFrame ==
    /\ [][\A m \in Samples : OnMessageOf(m) =>
            IF BearsTraces(m)
            THEN /\ Len(traceQueue') = Len(traceQueue) + Cardinality(IdSpans(m.payload))
                 /\ currentPlaybackRate' = AdjustedRate(Len(traceQueue'))
            ELSE currentPlaybackRate' = currentPlaybackRate]_playVars
    /\ [][PlayNextTrace => currentPlaybackRate' = currentPlaybackRate]_playVars
    /\ [][currentPlaybackRate' # currentPlaybackRate =>
            \E m \in Samples : OnMessageOf(m) /\ BearsTraces(m)]_playVars

\* C35 witness: a traces envelope of three spans set the delay to twice the
\* baseline; the three items have been played and a metrics envelope has
\* arrived since, and the delay is still that one.
C35_Witness ==
    /\ envelopes = 2
    /\ enqueued = 3
    /\ Len(presented) = 3
    /\ traceQueue = << >>
    /\ analyzed.metrics.cpu = 90
    /\ currentPlaybackRate = basePlaybackRate * 2

=============================================================================
